---- MODULE Spec2Model ----
(***************************************************************************)
(* Model of sublime_ELN_utils (eln_utils.py, eln_templating.py): the pure  *)
(* functions compl, rcompl, rseq and dna_filter, the text commands         *)
(* eln_sequence_transform, eln_sequence_stats, eln_insert_text,            *)
(* eln_insert_snippet and eln_merge_journal_notes running on a view, and   *)
(* the window commands eln_create_new_project and                          *)
(* eln_create_new_experiment with their input panels.                      *)
(*                                                                         *)
(* A Python str is modelled as a sequence of one-character strings.        *)
(* A call that may raise returns a record [exc, val]: exc = "none" and the *)
(* value, or the name of the exception raised.                             *)
(***************************************************************************)
EXTENDS Integers, Sequences, FiniteSets, TLC

VARIABLES
    seq,      \* SpecFn: the argument string of the function under study
    wc_map,   \* SpecFn: the wc_map argument (name of a base map)
    call,     \* SpecFn: which call chain has been evaluated on seq
    ret,      \* SpecFn: the outcome of that call chain
    buffer,   \* the text of the view
    sels,     \* view.sel(): the regions of the view, in buffer order
    cmd,      \* the command string of the command invoked ("none" before)
    pc,       \* position of the running command
    args,     \* the keyword arguments of the running command
    i,        \* index of the next selection visited by the command's loop
    text,     \* the local variable `text` of ElnSequenceTransformCommand.run
    exc,      \* the exception that ended the command ("none" if none)
    status,   \* the messages passed to sublime.status_message, in order
    edits,    \* the view.replace / view.insert calls made, in order, each
              \* with the text of the selection it was computed from
    view0,    \* the buffer and the selections when the command was invoked
    requested_userinput,  \* CollectUserInputCommand: the (key, description) pairs
                          \* not prompted for yet
    current_input,        \* the key of the prompt shown last
    collected_userinput,  \* the OrderedDict of the values entered, by key
    completed_userinput,  \* the keys answered, in order
    input_panel,          \* the input panel open in the window: <<>> or <<caption>>
    shown,                \* the captions passed to window.show_input_panel, in order
    done_calls,           \* the number of calls of done_collecting_userinput
    chain,    \* the requested list and the lengths of the logs when the create
              \* command was invoked last, and whether its panel was dismissed
    dirs,         \* the directories that exist on disk
    os_name,      \* os.name: "posix" or "nt"
    views,        \* the views opened with window.new_file(), in order
    experiment,   \* ElnCreateNewExperimentCommand: its invocations so far and
                  \* its attributes expid and titledesc
    globals,      \* the module-level names wc_maps and snippets of eln_utils and
                  \* the objects they are bound to
    notes,        \* the journal notes files: file name -> content
    settings,     \* eln_utils.sublime-settings: the keys set, with their values
    quick_panel,  \* the quick panel open in the window: None, or its items and
                  \* its preselected index
    merge,        \* the attributes ElnMergeJournalNotesCommand.run stores on self
    returned,     \* the command strings of the commands that have returned, in order
    view_file_name,  \* view.file_name(): the path of the file of the view
    content,      \* the local `content` of on_file_selected (None: not computed)
    file_ops,     \* the reads and writes of notes files made by the running command
    last_merge    \* the items offered and the index chosen when a notes file
                  \* was chosen last (None: never)

fnvars == <<seq, wc_map, call, ret>>
edvars == <<buffer, sels, cmd, pc, args, i, text, exc, status, edits, view0>>
tplvars == <<requested_userinput, current_input, collected_userinput, completed_userinput,
             input_panel, shown, done_calls, chain, dirs, os_name, views, experiment>>
sessvars == <<globals, notes, settings, quick_panel, merge, returned, view_file_name,
              content, file_ops, last_merge>>
vars == <<seq, wc_map, call, ret, buffer, sels, cmd, pc, args, i, text, exc, status, edits,
          view0, tplvars, sessvars>>

-----------------------------------------------------------------------------
(* Bounds of the model *)

\* longest enumerated argument string of the pure functions
MaxLen == 3
\* longest core enumerated between the terminus markers 5'- and -3'
MaxCore == 2
\* longest enumerated view buffer
MaxBuf == 3
\* most selections in an enumerated view
MaxSels == 2
\* longest enumerated list of requested user inputs
MaxRequested == 2
\* most invocations of the create command on one window
MaxRuns == 2
\* most commands run one after the other on one view
MaxCmds == 2

-----------------------------------------------------------------------------
(* Strings *)

\* characters enumerated in the arguments of the pure functions
EnumChars == {"A", "T", "G", "C", "U", "a", "x", "5", "'", "-", "/", "ß"}

\* characters enumerated in the text of a view
ViewChars == {"A", "G", "a", "x"}

None == [none |-> TRUE]

Return(v) == [exc |-> "none", val |-> v]

Raise(e) == [exc |-> e, val |-> <<>>]

Range(s) == {s[k] : k \in 1..Len(s)}

RECURSIVE SeqsOfLen(_, _)
SeqsOfLen(S, n) ==
    IF n = 0 THEN {<<>>}
    ELSE {Append(s, c) : s \in SeqsOfLen(S, n - 1), c \in S}

SeqsUpTo(S, n) == UNION {SeqsOfLen(S, k) : k \in 0..n}

\* the lower-case letters of the model and their upper-case letters
LowerToUpper == [a |-> "A", c |-> "C", g |-> "G", i |-> "I", l |-> "L", n |-> "N",
                 o |-> "O", r |-> "R", s |-> "S", t |-> "T", u |-> "U", x |-> "X"]

\* str.upper() of one character: Python applies the full Unicode case
\* mapping, under which "ß" becomes the two characters "SS"
UpperChar(c) ==
    IF c \in DOMAIN LowerToUpper THEN <<LowerToUpper[c]>>
    ELSE IF c = "ß" THEN <<"S", "S">>
    ELSE <<c>>

RECURSIVE upper(_)
upper(s) == IF s = <<>> THEN <<>> ELSE UpperChar(Head(s)) \o upper(Tail(s))

\* rseq without the reversal
rseq_identity(s) == s

\* rseq = lambda seq: "".join(reversed(seq))
rseq(s) == [k \in 1..Len(s) |-> s[Len(s) + 1 - k]]

\* s[k..] starts with pat
StartsAt(s, k, pat) ==
    /\ k + Len(pat) - 1 <= Len(s)
    /\ \A j \in 1..Len(pat) : s[k + j - 1] = pat[j]

\* str.replace(old, new) for a non-empty old: the non-overlapping occurrences
\* of old, found from left to right, are replaced by new
RECURSIVE ReplaceFrom(_, _, _, _)
ReplaceFrom(s, k, old, new) ==
    IF k > Len(s) THEN <<>>
    ELSE IF StartsAt(s, k, old) THEN new \o ReplaceFrom(s, k + Len(old), old, new)
    ELSE <<s[k]>> \o ReplaceFrom(s, k + 1, old, new)

str_replace(s, old, new) == ReplaceFrom(s, 1, old, new)

-----------------------------------------------------------------------------
(* The base maps *)

\* dict(zip(keys, vals)): a later pair overrides an earlier pair of the same key
DictZip(keys, vals) ==
    [c \in Range(keys) |->
        vals[CHOOSE k \in 1..Len(keys) :
                /\ keys[k] = c
                /\ \A j \in (k + 1)..Len(keys) : keys[j] # c]]

\* wc_maps with a mistyped complement string: C is paired with itself
wc_maps_typo ==
    [dna |-> DictZip(<<"5", "'", "-", "A", "T", "G", "C", "-", "3", "'">>,
                     <<"3", "'", "-", "T", "A", "C", "C", "-", "5", "'">>),
     rna |-> DictZip(<<"5", "'", "-", "A", "U", "G", "C", "-", "3", "'">>,
                     <<"3", "'", "-", "U", "A", "C", "C", "-", "5", "'">>)]

\* wc_maps with A and T (U) paired with themselves
wc_maps_swapped ==
    [dna |-> DictZip(<<"5", "'", "-", "A", "T", "G", "C", "-", "3", "'">>,
                     <<"3", "'", "-", "A", "T", "C", "G", "-", "5", "'">>),
     rna |-> DictZip(<<"5", "'", "-", "A", "U", "G", "C", "-", "3", "'">>,
                     <<"3", "'", "-", "A", "U", "C", "G", "-", "5", "'">>)]

\* wc_maps built from the bases alone, without the marker characters
wc_maps_bases_only ==
    [dna |-> DictZip(<<"A", "T", "G", "C">>, <<"T", "A", "C", "G">>),
     rna |-> DictZip(<<"A", "U", "G", "C">>, <<"U", "A", "C", "G">>)]

\* wc_maps with the two conversion maps added under their names
wc_maps_four ==
    [n \in {"dna", "rna", "rna-to-dna", "dna-to-rna"} |->
        IF n = "dna"
          THEN DictZip(<<"5", "'", "-", "A", "T", "G", "C", "-", "3", "'">>,
                       <<"3", "'", "-", "T", "A", "C", "G", "-", "5", "'">>)
        ELSE IF n = "rna"
          THEN DictZip(<<"5", "'", "-", "A", "U", "G", "C", "-", "3", "'">>,
                       <<"3", "'", "-", "U", "A", "C", "G", "-", "5", "'">>)
        ELSE IF n = "rna-to-dna"
          THEN DictZip(<<"A", "U", "G", "C">>, <<"T", "A", "C", "G">>)
        ELSE DictZip(<<"A", "T", "G", "C">>, <<"U", "A", "C", "G">>)]

\* wc_maps: the base maps by name; the marker characters 5, ', - and 3 are
\* keys too, 5 and 3 mapped onto each other
wc_maps ==
    [dna |-> DictZip(<<"5", "'", "-", "A", "T", "G", "C", "-", "3", "'">>,
                     <<"3", "'", "-", "T", "A", "C", "G", "-", "5", "'">>),
     rna |-> DictZip(<<"5", "'", "-", "A", "U", "G", "C", "-", "3", "'">>,
                     <<"3", "'", "-", "U", "A", "C", "G", "-", "5", "'">>)]

\* dict.get(b, "N"): an unmapped character replaced by a placeholder
DictGet_placeholder(d, b) == IF b \in DOMAIN d THEN d[b] ELSE "N"

\* dict.get(b, b)
DictGet(d, b) == IF b \in DOMAIN d THEN d[b] ELSE b

\* compl mapping the characters of seq as they are, without seq.upper()
compl_no_upper(s, m) ==
    IF s = <<>> THEN Return(<<>>)
    ELSE IF m \notin DOMAIN wc_maps THEN Raise("KeyError")
    ELSE Return([k \in 1..Len(s) |-> DictGet(wc_maps[m], s[k])])

\* compl indexing the map (wc_maps[wc_map][b]) instead of using get(b, b)
compl_strict(s, m) ==
    LET up == upper(s) IN
    IF up = <<>> THEN Return(<<>>)
    ELSE IF m \notin DOMAIN wc_maps THEN Raise("KeyError")
    ELSE IF \E k \in 1..Len(up) : up[k] \notin DOMAIN wc_maps[m] THEN Raise("KeyError")
    ELSE Return([k \in 1..Len(up) |-> wc_maps[m][up[k]]])

\* compl(seq, wc_map): the generator looks wc_maps[wc_map] up once per
\* character of seq.upper(), so an unknown name raises KeyError only when
\* there is a character to map
compl(s, m) ==
    LET up == upper(s) IN
    IF up = <<>> THEN Return(<<>>)
    ELSE IF m \notin DOMAIN wc_maps THEN Raise("KeyError")
    ELSE Return([k \in 1..Len(up) |-> DictGet(wc_maps[m], up[k])])

\* rcompl(seq, wc_map)
rcompl(s, m) ==
    LET c == compl(s, m) IN
    IF c.exc # "none" THEN c ELSE Return(rseq(c.val))

\* dna_filter without the upper-casing
dna_filter_no_upper(s) == SelectSeq(s, LAMBDA b : b \in {"A", "T", "C", "G", "U"})

\* dna_filter(seq)
dna_filter(s) == SelectSeq(upper(s), LAMBDA b : b \in {"A", "T", "C", "G", "U"})

-----------------------------------------------------------------------------
(* The strings named in the specification, and the enumerated inputs *)

ex_ATGC == <<"A", "T", "G", "C">>
ex_atgc == <<"a", "t", "g", "c">>
ex_ATGX == <<"A", "T", "G", "X">>
ex_marked == <<"5", "'", "-", "A", "T", "G", "C", "-", "3", "'">>
ex_mod == <<"A", "T", "/", "5", "B", "i", "o", "s", "g", "/", "G", "C">>
ex_filter == <<"x", "A", "t", "G", "c", "1", "2", "3">>

Examples == {ex_ATGC, ex_atgc, ex_ATGX, ex_marked, ex_mod, ex_filter}

Bases == {"A", "T", "G", "C"}

Cores == SeqsUpTo(Bases, MaxCore)

Marked5(core) == <<"5", "'", "-">> \o core \o <<"-", "3", "'">>

Marked3(core) == <<"3", "'", "-">> \o core \o <<"-", "5", "'">>

MapNames == {"dna", "rna", "rna-to-dna", "dna-to-rna"}

FnInputs == SeqsUpTo(EnumChars, MaxLen) \cup Examples \cup {Marked5(c) : c \in Cores}

Flags == [complement : BOOLEAN, reverse : BOOLEAN, dna_only : BOOLEAN,
          replace : BOOLEAN, wc_map : MapNames]

NoArgs == [complement |-> TRUE, reverse |-> FALSE, dna_only |-> FALSE,
           replace |-> TRUE, wc_map |-> "dna"]

-----------------------------------------------------------------------------
(* The body of ElnSequenceTransformCommand.run for one selection *)

\* selection_text with the dna_only filter applied after the complement
selection_text_filter_last(s, a, old) ==
    LET t == IF a.complement
                THEN (IF a.reverse THEN rcompl(s, a.wc_map) ELSE compl(s, a.wc_map))
             ELSE IF a.reverse THEN Return(rseq(s))
             ELSE IF old = None THEN Raise("UnboundLocalError")
             ELSE Return(old)
        f == IF t.exc = "none" /\ a.dna_only THEN Return(dna_filter(t.val)) ELSE t
    IN  IF f.exc # "none" THEN f
        ELSE IF a.reverse
            THEN Return(str_replace(str_replace(f.val, <<"'", "5", "-">>, <<"5", "'", "-">>),
                                    <<"-", "'", "3">>, <<"-", "3", "'">>))
        ELSE f

\* selection_text with `text` bound to the selection text before the branches
selection_text_bound(s, a, old) ==
    LET sq == IF a.dna_only THEN dna_filter(s) ELSE s
        t == IF a.complement
                THEN (IF a.reverse THEN rcompl(sq, a.wc_map) ELSE compl(sq, a.wc_map))
             ELSE IF a.reverse THEN Return(rseq(sq))
             ELSE Return(sq)
    IN  IF t.exc # "none" THEN t
        ELSE IF a.reverse
            THEN Return(str_replace(str_replace(t.val, <<"'", "5", "-">>, <<"5", "'", "-">>),
                                    <<"-", "'", "3">>, <<"-", "3", "'">>))
        ELSE t

\* lines 548-557: the text computed for a selection whose text is s, under
\* the keyword arguments a, when the local `text` holds old (None: unbound)
selection_text(s, a, old) ==
    LET sq == IF a.dna_only THEN dna_filter(s) ELSE s
        t == IF a.complement
                THEN (IF a.reverse THEN rcompl(sq, a.wc_map) ELSE compl(sq, a.wc_map))
             ELSE IF a.reverse THEN Return(rseq(sq))
             ELSE IF old = None THEN Raise("UnboundLocalError")
             ELSE Return(old)
    IN  IF t.exc # "none" THEN t
        ELSE IF a.reverse
            THEN Return(str_replace(str_replace(t.val, <<"'", "5", "-">>, <<"5", "'", "-">>),
                                    <<"-", "'", "3">>, <<"-", "3", "'">>))
        ELSE t

-----------------------------------------------------------------------------
(* The view of the host editor *)

Region(x, y) == [a |-> x, b |-> y]

Regions(n) == {r \in [a : 0..n, b : 0..n] : r.a <= r.b}

\* a test that takes no region for empty
empty_never(r) == FALSE

\* selection.empty()
empty(r) == r.a = r.b

\* a selection is kept in buffer order, its regions do not overlap, and a
\* caret touching another region is merged with it
ValidSel(l) ==
    \A k \in 1..(Len(l) - 1) :
        /\ l[k].b <= l[k + 1].a
        /\ l[k].b = l[k + 1].a => ~empty(l[k]) /\ ~empty(l[k + 1])

SelLists(n) ==
    {l \in UNION {SeqsOfLen(Regions(n), k) : k \in 1..MaxSels} : ValidSel(l)}

\* view.substr(region)
substr(buf, r) == SubSeq(buf, r.a + 1, r.b)

\* a replace that inserts the text behind the region and keeps the region
replace_buffer_keep(buf, r, t) == SubSeq(buf, 1, r.b) \o t \o SubSeq(buf, r.b + 1, Len(buf))

\* view.replace(edit, region, text): the buffer after the call
replace_buffer(buf, r, t) == SubSeq(buf, 1, r.a) \o t \o SubSeq(buf, r.b + 1, Len(buf))

\* regions that are not moved when the text before them changes its length
replace_sels_noshift(l, k, t) ==
    [j \in 1..Len(l) |->
        IF j = k THEN Region(l[k].a, l[k].a + Len(t))
        ELSE l[j]]

\* view.replace(edit, region, text): the regions after the call; the region
\* replaced covers the new text and the regions behind it move with their text
replace_sels(l, k, t) ==
    LET d == Len(t) - (l[k].b - l[k].a) IN
    [j \in 1..Len(l) |->
        IF j = k THEN Region(l[k].a, l[k].a + Len(t))
        ELSE IF j > k THEN Region(l[j].a + d, l[j].b + d)
        ELSE l[j]]

\* view.insert(edit, view.size(), text): the buffer after the call
insert_buffer(buf, t) == buf \o t

\* view.insert(edit, view.size(), text): a caret at the end of the buffer
\* moves behind the inserted text, every other region stays
insert_sels(l, size, t) ==
    [j \in 1..Len(l) |->
        IF empty(l[j]) /\ l[j].a = size THEN Region(size + Len(t), size + Len(t))
        ELSE l[j]]

WholeBuffer(buf) == <<Region(0, Len(buf))>>

\* the views a command starts on: every short text with every selection, and
\* the named strings and marked cores selected as a whole
ViewInits ==
    UNION {{<<buf, l>> : l \in SelLists(Len(buf))} : buf \in SeqsUpTo(ViewChars, MaxBuf)}
    \cup {<<buf, WholeBuffer(buf)>> : buf \in Examples \cup {Marked5(c) : c \in Cores}}

-----------------------------------------------------------------------------
(* The body of ElnSequenceStats.run for one selection *)

\* sum(1 for b in seq if b == k)
count(s, k) == Cardinality({j \in 1..Len(s) : s[j] = k})

\* "{:0.02f}".format(n/d) in hundredths: n/d rounded to two decimals, a tie
\* (exact in binary for the denominators of the model) going to the even digit
format_02f(n, d) ==
    LET q == (100 * n) \div d
        r == (100 * n) % d
    IN  IF 2 * r < d THEN q
        ELSE IF 2 * r > d THEN q + 1
        ELSE IF q % 2 = 0 THEN q ELSE q + 1

\* selection_stats with a guard: a zero total is reported as ratio 0
selection_stats_guarded(s, a) ==
    LET sq == IF a.dna_only THEN dna_filter(s) ELSE s
        gc == count(sq, "G") + count(sq, "C")
        tot == count(sq, "A") + count(sq, "T") + count(sq, "G") + count(sq, "C")
    IN  IF tot = 0 THEN Return([gc |-> 0, tot |-> 0, ratio |-> 0])
        ELSE Return([gc |-> gc, tot |-> tot, ratio |-> format_02f(gc, tot)])

\* selection_stats dividing by the length of the sequence
selection_stats_len(s, a) ==
    LET sq == IF a.dna_only THEN dna_filter(s) ELSE s
        gc == count(sq, "G") + count(sq, "C")
        tot == Len(sq)
    IN  IF tot = 0 THEN Raise("ZeroDivisionError")
        ELSE Return([gc |-> gc, tot |-> tot, ratio |-> format_02f(gc, tot)])

\* lines 589-596: the message "GC content: <gc/tot> (<gc>/<tot>)" computed
\* for a selection whose text is s
selection_stats(s, a) ==
    LET sq == IF a.dna_only THEN dna_filter(s) ELSE s
        gc == count(sq, "G") + count(sq, "C")
        tot == count(sq, "A") + count(sq, "T") + count(sq, "G") + count(sq, "C")
    IN  IF tot = 0 THEN Raise("ZeroDivisionError")
        ELSE Return([gc |-> gc, tot |-> tot, ratio |-> format_02f(gc, tot)])

-----------------------------------------------------------------------------
(* The snippets, the notes files and the texts inserted into the view *)

\* lines 41-44: the snippets, format strings of str.format
snippets ==
    [journal_date_header |-> "'''Journal, {date:%Y-%m-%d}:'''",
     journal_daily_start |-> "'''Journal, {date:%Y-%m-%d}:'''\n* {date:%H:%M} > ",
     journal_timestamp |-> "* {date:%H:%M} > "]

\* the module-level tables as the import of eln_utils leaves them
InitGlobals == [wc_maps |-> wc_maps, snippets |-> snippets]

\* the literal characters and the replacement fields of a format string
JournalDateHeaderTokens ==
    <<"'", "'", "'", "J", "o", "u", "r", "n", "a", "l", ",", " ", "{date:%Y-%m-%d}",
      ":", "'", "'", "'">>

JournalTimestampTokens == <<"*", " ", "{date:%H:%M}", " ", ">", " ">>

\* the format strings of the model, parsed; "{" is a string whose brace opens
\* no field
FormatTokens ==
    (snippets.journal_date_header :> JournalDateHeaderTokens)
    @@ (snippets.journal_daily_start :>
            JournalDateHeaderTokens \o <<"\n">> \o JournalTimestampTokens)
    @@ (snippets.journal_timestamp :> JournalTimestampTokens)
    @@ ("x" :> <<"x">>)
    @@ ("{" :> <<"{">>)

\* the values of the snippet argument of eln_insert_snippet: the keys of the
\* snippets and two texts that are no key
SnippetArgs == DOMAIN snippets \cup {"x", "{"}

\* the values datetime.now() takes
Clock ==
    {[year |-> 2018, month |-> 3, day |-> 7, hour |-> 9, minute |-> 5],
     [year |-> 2018, month |-> 12, day |-> 31, hour |-> 23, minute |-> 59]}

Digit(n) == <<"0", "1", "2", "3", "4", "5", "6", "7", "8", "9">>[n + 1]

\* a number printed by strftime with two, or four, digits
TwoDigits(n) == <<Digit((n \div 10) % 10), Digit(n % 10)>>

FourDigits(n) == TwoDigits(n \div 100) \o TwoDigits(n % 100)

\* format(date, spec) for the two replacement fields of the snippets
strftime(field, date) ==
    IF field = "{date:%H:%M}"
        THEN TwoDigits(date.hour) \o <<":">> \o TwoDigits(date.minute)
    ELSE FourDigits(date.year) \o <<"-">> \o TwoDigits(date.month) \o <<"-">>
         \o TwoDigits(date.day)

RECURSIVE ExpandFields(_, _)
ExpandFields(toks, date) ==
    IF toks = <<>> THEN <<>>
    ELSE (IF Head(toks) \in {"{date:%H:%M}", "{date:%Y-%m-%d}"}
            THEN strftime(Head(toks), date)
          ELSE <<Head(toks)>>) \o ExpandFields(Tail(toks), date)

\* text.format(date=date): the characters of the result; a single brace is
\* a ValueError
format_date(t, date) ==
    LET toks == FormatTokens[t] IN
    IF \E k \in 1..Len(toks) : toks[k] \in {"{", "}"} THEN Raise("ValueError")
    ELSE Return(ExpandFields(toks, date))

IsSpace(c) == c \in {" ", "\n", "\t"}

RECURSIVE lstrip(_)
lstrip(s) == IF s # <<>> /\ IsSpace(Head(s)) THEN lstrip(Tail(s)) ELSE s

RECURSIVE rstrip(_)
rstrip(s) ==
    IF s # <<>> /\ IsSpace(s[Len(s)]) THEN rstrip(SubSeq(s, 1, Len(s) - 1)) ELSE s

\* str.strip()
strip(s) == rstrip(lstrip(s))

\* str.split(sep) for a non-empty sep
RECURSIVE split(_, _)
split(s, sep) ==
    LET hits == {k \in 1..Len(s) : StartsAt(s, k, sep)} IN
    IF hits = {} THEN <<s>>
    ELSE LET k == CHOOSE h \in hits : \A g \in hits : h <= g
         IN  <<SubSeq(s, 1, k - 1)>> \o split(SubSeq(s, k + Len(sep), Len(s)), sep)

\* sep.join(parts)
RECURSIVE join(_, _)
join(sep, parts) ==
    IF parts = <<>> THEN <<>>
    ELSE IF Len(parts) = 1 THEN parts[1]
    ELSE parts[1] \o sep \o join(sep, Tail(parts))

\* a position argument that is a number, kept apart from None
At(p) == [at |-> p]

\* a resolution that takes the end of the first selection for None
resolve_position_end(position, l, buf) ==
    IF position = None THEN l[1].b
    ELSE IF position.at = -1 THEN Len(buf)
    ELSE position.at

\* lines 95-98 and 229-232: position None is the begin of the first
\* selection, position -1 is the end of the buffer
resolve_position(position, l, buf) ==
    IF position = None THEN l[1].a
    ELSE IF position.at = -1 THEN Len(buf)
    ELSE position.at

\* view.insert(edit, position, text): the buffer after the call
view_insert(buf, p, t) == SubSeq(buf, 1, p) \o t \o SubSeq(buf, p + 1, Len(buf))

\* view.insert(edit, position, text): the regions after the call; what stands
\* at or behind the position moves with its text, a region that ends at the
\* position keeps its end
view_insert_sels(l, p, t) ==
    [j \in 1..Len(l) |->
        Region(IF l[j].a >= p THEN l[j].a + Len(t) ELSE l[j].a,
               IF l[j].b > p \/ l[j].a = p THEN l[j].b + Len(t) ELSE l[j].b)]

\* the notes files found in the journal directories, in the order of the glob
NoteFiles == <<"C:\\j\\2018 RS1.md", "C:\\j\\RS2 notes.md">>

\* the paths view.file_name() may return
ViewFileNames == {"C:\\e\\RS2.md", "C:\\e\\RS3.md"}

\* os.path.basename on the paths of the model
basename ==
    ("C:\\j\\2018 RS1.md" :> "2018 RS1.md") @@ ("C:\\j\\RS2 notes.md" :> "RS2 notes.md")
    @@ ("C:\\e\\RS2.md" :> "RS2.md") @@ ("C:\\e\\RS3.md" :> "RS3.md")

\* the strings list.sort() compares, in the order of their code points
CodePointOrder == <<"2018 RS1.md", "C:\\e\\RS2.md", "C:\\e\\RS3.md", "RS2 notes.md">>

Rank(s) == CHOOSE k \in 1..Len(CodePointOrder) : CodePointOrder[k] = s

\* the group 'expid' that view_filename_pat and notes_filename_pat match in a
\* file name
ExpidOf ==
    ("RS2.md" :> "RS2") @@ ("RS3.md" :> "RS3") @@ ("2018 RS1.md" :> "RS1")
    @@ ("RS2 notes.md" :> "RS2")

\* no key set in the settings file
NoSettings == [k \in {} |-> <<>>]

\* the settings files of the model: nothing set, or the file name patterns
\* and notes_filename_keys = ["expid"] set
SettingsFiles == {NoSettings, "notes_filename_keys" :> <<"expid">>}

\* l[index] of a Python list: a negative index counts from the end
file_at(l, index) == IF index >= 0 THEN l[index + 1] ELSE l[Len(l) + index + 1]

\* a test that takes no index for a cancelled panel
cancelled_never(index) == FALSE

\* line 179: the quick panel was cancelled
cancelled(index) == index < 0

\* lines 132-172: the index preselected in the quick panel. The view file
\* name is sorted into the offered base names and its place is taken; with
\* the key matching configured the first name with the expid of the view is
\* taken, and when there is none the setting last_external_journal if it is
\* one of the offered base names
selected_index(view_filename, filepaths, st) ==
    LET names == [k \in 1..Len(filepaths) |-> basename[filepaths[k]]]
        alphabetic == Cardinality({k \in 1..Len(names) : Rank(names[k]) < Rank(view_filename)})
        matches == {k \in 1..Len(names) : ExpidOf[names[k]] = ExpidOf[basename[view_filename]]}
    IN  IF "notes_filename_keys" \notin DOMAIN st THEN alphabetic
        ELSE IF matches # {} THEN (CHOOSE k \in matches : \A j \in matches : k <= j) - 1
        ELSE IF /\ "last_external_journal" \in DOMAIN st
                /\ st["last_external_journal"] \in Range(names)
            THEN (CHOOSE k \in 1..Len(names) : names[k] = st["last_external_journal"]) - 1
        ELSE alphabetic

\* the contents the notes files start with: two paragraphs, and one line
NoteTexts ==
    (NoteFiles[1] :> <<"a", "\n", "\n", "x", "\n">>) @@ (NoteFiles[2] :> <<"x", "\n">>)

\* the keyword arguments move, add_journal_header, paragraphs_to_bullet and
\* add_timestamp of eln_merge_journal_notes: the defaults and two other uses
MergeFlags ==
    {[move |-> TRUE, add_journal_header |-> TRUE, paragraphs_to_bullet |-> TRUE,
      add_timestamp |-> TRUE],
     [move |-> FALSE, add_journal_header |-> FALSE, paragraphs_to_bullet |-> FALSE,
      add_timestamp |-> TRUE],
     [move |-> TRUE, add_journal_header |-> FALSE, paragraphs_to_bullet |-> TRUE,
      add_timestamp |-> FALSE]}

\* the values of the setting min_file_size: a configured 2 or 3 and the
\* default 10
MinFileSizes == {2, 3, 10}

\* the views a session of commands starts on
SessionViews ==
    {<<(<<"A", "x">>), WholeBuffer(<<"A", "x">>)>>,
     <<(<<"A", "x">>), (<<Region(0, 1), Region(2, 2)>>)>>}

\* lines 188-206: the text inserted for a notes file holding read, under
\* the attributes m of the command, with snippets table snips and the two
\* values of datetime.now()
merged_content(read, m, snips, now_timestamp, now_header) ==
    LET timestamp == IF m.add_timestamp
                        THEN format_date(snips["journal_timestamp"], now_timestamp).val
                     ELSE IF m.paragraphs_to_bullet THEN <<"*", " ">>
                     ELSE <<>>
        paragraphs == split(strip(read), <<"\n", "\n">>)
        body == IF m.paragraphs_to_bullet
                    THEN join(<<"\n">>, [k \in 1..Len(paragraphs) |-> timestamp \o paragraphs[k]])
                ELSE IF m.add_timestamp THEN timestamp \o read
                ELSE read
    IN  IF m.add_journal_header
            THEN join(<<"\n">>, <<format_date(snips["journal_date_header"], now_header).val, body>>)
        ELSE body

\* no session of commands: the tables as imported, no notes file, no panel
NoSession ==
    /\ globals = InitGlobals
    /\ notes = <<>>
    /\ settings = NoSettings
    /\ quick_panel = None
    /\ merge = None
    /\ returned = <<>>
    /\ view_file_name = None
    /\ content = None
    /\ file_ops = <<>>
    /\ last_merge = None

------------------------------------------------------------------------------
(* CollectUserInputCommand: the chain of input panels *)

\* the (key, description) pairs a create command may request
UserInputs ==
    {<<"projectid", "Project Identifier">>, <<"titledesc", "Title description">>}

\* the lists the setting 'eln_projects_userinput' may hold
RequestedLists == SeqsUpTo(UserInputs, MaxRequested)

\* a text handed to on_done, kept apart from None
Entered(s) == [text |-> s]

\* the texts typed into an input panel
InputValues == {Entered(<<>>), Entered(<<"v">>)}

\* no create command invoked yet
NoChain == [runs |-> 0, requested |-> <<>>, shown |-> 0, done |-> 0, completed |-> 0,
            cancelled |-> FALSE]

\* ElnCreateNewExperimentCommand not invoked yet
NoExperiment == [runs |-> 0, expid |-> None, titledesc |-> None]

\* no create command at work: nothing on disk, no view opened
NoCreate ==
    /\ dirs = {}
    /\ os_name = "posix"
    /\ views = <<>>
    /\ experiment = NoExperiment

\* CollectUserInputCommand.__init__ (lines 48-53), and no command invoked
ChainIdle ==
    /\ collected_userinput = <<>>
    /\ requested_userinput = <<>>
    /\ current_input = None
    /\ completed_userinput = <<>>
    /\ input_panel = <<>>
    /\ shown = <<>>
    /\ done_calls = 0
    /\ chain = NoChain

TplIdle == ChainIdle /\ NoCreate

\* collected_userinput[key] = value on an OrderedDict kept as a sequence of
\* <<key, value>>: a key already present keeps its place
OrderedDictSet(d, key, value) ==
    IF \E k \in 1..Len(d) : d[k][1] = key
        THEN [k \in 1..Len(d) |-> IF d[k][1] = key THEN <<key, value>> ELSE d[k]]
    ELSE Append(d, <<key, value>>)

\* the keys of an OrderedDict kept as a sequence of <<key, value>>
Keys(d) == {d[k][1] : k \in 1..Len(d)}

\* dict(d): the value stored under each key
Dict(d) == [key \in Keys(d) |-> d[CHOOSE k \in 1..Len(d) : d[k][1] = key][2]]

------------------------------------------------------------------------------
(* The create commands: folder, view and template of a new page *)

\* settings.get(key, default)
Get(st, key, default) == IF key \in DOMAIN st THEN st[key] ELSE default

\* the replacement fields of the format strings of the model, with the
\* keyword each names
FieldOf ==
    ("{expid}" :> "expid") @@ ("{titledesc}" :> "titledesc")
    @@ ("{projectid}" :> "projectid") @@ ("{title}" :> "title")

\* fmt.format(**kwargs) on a format string kept as its literal characters and
\* replacement fields: a field whose keyword is missing raises KeyError
RECURSIVE str_format(_, _)
str_format(fmt, kwargs) ==
    IF fmt = <<>> THEN Return(<<>>)
    ELSE LET tok == Head(fmt)
             rest == str_format(Tail(fmt), kwargs)
         IN  IF tok \in DOMAIN FieldOf /\ FieldOf[tok] \notin DOMAIN kwargs
               THEN Raise("KeyError")
             ELSE IF rest.exc # "none" THEN rest
             ELSE Return((IF tok \in DOMAIN FieldOf THEN kwargs[FieldOf[tok]]
                          ELSE <<tok>>) \o rest.val)

\* the defaults of the title and the file name format (lines 351-352)
DefaultTitleFmt == <<"{expid}", " ", "{titledesc}">>

DefaultFilenameFmt == <<"{expid}", ".", "m", "d">>

\* the base directory the settings of the model name, absolute and normalised,
\* so that os.path.abspath(os.path.expanduser(basedir)) is basedir
BaseDir == <<"/", "e">>

\* the template files on disk, by the name the settings give them: their
\* content, a format string
TemplateFiles == "t.md" :> <<"#", " ", "{title}", "\n">>

\* the parts of the settings files the create commands are run under: the
\* base directories, formats for the project page that name the project
\* inputs, the templates, an empty folder name format
BaseDirs(d) == ("eln_experiments_basedir" :> d) @@ ("eln_projects_basedir" :> d)

ProjectFormats ==
    ("eln_projects_title_fmt" :> <<"{projectid}", " ", "{titledesc}">>)
    @@ ("eln_projects_filename_fmt" :> <<"{projectid}", ".", "m", "d">>)

Templates == ("eln_experiments_template" :> "t.md") @@ ("eln_projects_template" :> "t.md")

NoFolders ==
    ("eln_experiments_foldername_fmt" :> <<>>) @@ ("eln_projects_foldername_fmt" :> <<>>)

\* a settings file, the directories on disk and os.name
Env(st, fs, os) == [settings |-> st, dirs |-> fs, os_name |-> os]

\* the environments the create commands are run in: nothing set; the base
\* directory set and on disk, with the default formats, with the project
\* formats, with the templates; the base directory missing on disk, under
\* either os.name; an empty folder name format; an empty base directory
CreateEnvs ==
    {Env(NoSettings, {}, "posix"),
     Env(BaseDirs(BaseDir), {BaseDir}, "posix"),
     Env(BaseDirs(BaseDir) @@ ProjectFormats, {BaseDir}, "posix"),
     Env(BaseDirs(BaseDir) @@ ProjectFormats @@ Templates, {BaseDir}, "posix"),
     Env(BaseDirs(BaseDir) @@ ProjectFormats @@ Templates, {}, "posix"),
     Env(BaseDirs(BaseDir) @@ ProjectFormats @@ Templates, {}, "nt"),
     Env(BaseDirs(BaseDir) @@ ProjectFormats @@ Templates @@ NoFolders, {BaseDir}, "posix"),
     Env(BaseDirs(<<>>) @@ ProjectFormats, {}, "posix")}

\* os.sep
Sep(os) == IF os = "nt" THEN "\\" ELSE "/"

\* os.path.join(a, b) for a relative b. With a = None posixpath.join raises
\* TypeError (None + str), and so does ntpath.join from Python 3.4 on; the
\* ntpath.join of Python 3.3, the interpreter of Sublime Text 3, tests
\* `if not path` first and returns b
os_path_join(a, b, os) ==
    IF a = None
        THEN (IF os = "nt" THEN Return(b) ELSE Raise("TypeError"))
    ELSE IF a.text = <<>> \/ a.text[Len(a.text)] = Sep(os) THEN Return(a.text \o b)
    ELSE Return(a.text \o <<Sep(os)>> \o b)

\* any(values) that takes every list to hold a true value
any_always(values) == TRUE

\* any(values) over strings: one of them is not empty
any(values) == \E k \in 1..Len(values) : values[k] # <<>>

\* what a run of a done handler leaves: the exception that left it, the
\* directories on disk, the messages shown and the views opened
Outcome(e, fs, msgs, opened) == [exc |-> e, dirs |-> fs, msgs |-> msgs, views |-> opened]

\* the view window.new_file() returns
NewFile == [name |-> None, default_dir |-> None, buffer |-> <<>>, saved |-> FALSE]

\* step 1 of both done handlers (eln_utils.py lines 389-412): the folder of
\* the new page is made under the base directory when that is a directory;
\* a missing base directory is reported and leaves foldername and folderpath
\* None
make_folder(basedir, foldername_fmt, kwargs, fs, os, missing) ==
    LET none == [exc |-> "none", foldername |-> None, folderpath |-> None,
                 dirs |-> fs, msgs |-> <<>>]
        dir == strip(basedir)
        name == str_format(foldername_fmt, kwargs)
        foldername == strip(name.val)
        folderpath == os_path_join(Entered(dir), foldername, os).val
    IN  IF basedir = <<>> \/ foldername_fmt = <<>> THEN none
        ELSE IF dir \notin fs THEN [none EXCEPT !.msgs = <<[msg |-> missing, dir |-> dir]>>]
        ELSE IF name.exc # "none" THEN [none EXCEPT !.exc = name.exc]
        ELSE [exc |-> "none",
              foldername |-> Entered(foldername),
              folderpath |-> Entered(folderpath),
              dirs |-> fs \cup {folderpath},
              msgs |-> <<[msg |-> IF folderpath \in fs
                                    THEN "NOTICE: The folderpath for the new experiment already exists"
                                  ELSE "OK: Created new experiment directory",
                          dir |-> folderpath]>>]

\* steps 6 and on: eln_insert_text puts the text at the end of the new view,
\* and the window runs "save" (eln_experiments_save_to_file is not set)
insert_and_save(view, t) ==
    [view EXCEPT !.buffer = view_insert(view.buffer,
                                        resolve_position(At(Len(view.buffer)),
                                                         <<Region(0, 0)>>, view.buffer), t),
                 !.saved = TRUE]

\* ElnCreateNewExperimentCommand.done_collecting_variables (eln_utils.py
\* lines 327-517) with self.expid = e and self.titledesc = t, under the
\* settings st, the directories fs and os.name = os
done_collecting_variables(st, fs, os, e, t) ==
    LET kwargs == ("expid" :> e) @@ ("titledesc" :> t)
        title_fmt == Get(st, "eln_experiments_title_fmt", DefaultTitleFmt)
        filename_fmt == Get(st, "eln_experiments_filename_fmt", DefaultFilenameFmt)
        parts == split(title_fmt, <<"/">>)
        foldername_fmt == Get(st, "eln_experiments_foldername_fmt", parts[Len(parts)])
        template == Get(st, "eln_experiments_template", "")
        folder == make_folder(st["eln_experiments_basedir"], foldername_fmt, kwargs, fs, os,
                              "ERROR: Configured experiment base dir does not exists")
        pagetitle == str_format(title_fmt, kwargs)
        filename == str_format(filename_fmt, ("title" :> pagetitle.val) @@ kwargs)
        exp_view == [NewFile EXCEPT !.default_dir = folder.folderpath]
        named == [exp_view EXCEPT !.name = Entered(filename.val)]
        filepath == os_path_join(folder.folderpath, filename.val, os)
        template_content ==
            str_format(TemplateFiles[template], ("title" :> pagetitle.val) @@ kwargs)
    IN  IF "eln_experiments_basedir" \notin DOMAIN st THEN Outcome("ValueError", fs, <<>>, <<>>)
        ELSE IF ~any(<<e, t>>) THEN Outcome("none", fs, <<>>, <<>>)
        ELSE IF folder.exc # "none" THEN Outcome(folder.exc, fs, <<>>, <<>>)
        ELSE IF pagetitle.exc # "none"
            THEN Outcome(pagetitle.exc, folder.dirs, folder.msgs, <<>>)
        ELSE IF filename.exc # "none"
            THEN Outcome(filename.exc, folder.dirs, folder.msgs, <<NewFile>>)
        ELSE IF filepath.exc # "none"
            THEN Outcome(filepath.exc, folder.dirs, folder.msgs, <<named>>)
        ELSE IF template = ""
            THEN Outcome("none", folder.dirs, folder.msgs, <<insert_and_save(named, <<>>)>>)
        ELSE IF template \notin DOMAIN TemplateFiles
            THEN Outcome("none", folder.dirs, folder.msgs, <<named>>)
        ELSE IF template_content.exc # "none"
            THEN Outcome(template_content.exc, folder.dirs,
                         Append(folder.msgs,
                                [msg |-> "ERROR: Unrecognized variable name in template"]),
                         <<named>>)
        ELSE Outcome("none", folder.dirs, folder.msgs,
                     <<insert_and_save(named, template_content.val)>>)

\* self.show_error(desc, exc) (eln_templating.py lines 83-87)
show_error(desc) == [msg |-> desc, exc |-> "KeyError"]

\* ElnCreateNewProjectCommand.done_collecting_userinput (eln_templating.py
\* lines 120-330) with self.collected_userinput = collected
done_collecting_userinput(st, fs, os, collected) ==
    LET template_kwargs == Dict(collected)
        title_fmt == Get(st, "eln_projects_title_fmt", DefaultTitleFmt)
        filename_fmt == Get(st, "eln_projects_filename_fmt", DefaultFilenameFmt)
        parts == split(title_fmt, <<"/">>)
        foldername_fmt == Get(st, "eln_projects_foldername_fmt", parts[Len(parts)])
        template_fn == Get(st, "eln_projects_template", "")
        folder == make_folder(st["eln_projects_basedir"], foldername_fmt, template_kwargs, fs,
                              os, "ERROR: Configured project base dir does not exists")
        title == str_format(title_fmt, template_kwargs)
        titled == ("title" :> title.val) @@ template_kwargs
        filename == str_format(filename_fmt, titled)
        exp_view == [NewFile EXCEPT !.default_dir = folder.folderpath]
        named == [exp_view EXCEPT !.name = Entered(filename.val)]
        filepath == os_path_join(folder.folderpath, filename.val, os)
        template_content == str_format(TemplateFiles[template_fn], titled)
    IN  IF "eln_projects_basedir" \notin DOMAIN st THEN Outcome("ValueError", fs, <<>>, <<>>)
        ELSE IF ~any([k \in 1..Len(collected) |-> collected[k][2]])
            THEN Outcome("none", fs, <<>>, <<>>)
        ELSE IF folder.exc # "none"
            THEN Outcome("none", fs,
                         <<show_error("Error creating foldername from format string")>>, <<>>)
        ELSE IF title.exc # "none"
            THEN Outcome("none", folder.dirs,
                         Append(folder.msgs,
                                show_error("Error creating title from format string")),
                         <<>>)
        ELSE IF filename.exc # "none"
            THEN Outcome("none", folder.dirs,
                         Append(folder.msgs,
                                show_error("Error creating filename from format string")),
                         <<NewFile>>)
        ELSE IF filepath.exc # "none"
            THEN Outcome(filepath.exc, folder.dirs, folder.msgs, <<named>>)
        ELSE IF template_fn = ""
            THEN Outcome("none", folder.dirs,
                         Append(folder.msgs, [msg |-> "No template specified"]),
                         <<insert_and_save(named, <<>>)>>)
        ELSE IF template_fn \notin DOMAIN TemplateFiles
            THEN Outcome("none", folder.dirs, folder.msgs, <<named>>)
        ELSE IF template_content.exc # "none"
            THEN Outcome("none", folder.dirs,
                         Append(folder.msgs,
                                show_error("Error interpolating template with template vars")),
                         <<named>>)
        ELSE Outcome("none", folder.dirs, folder.msgs,
                     <<insert_and_save(named, template_content.val)>>)

\* the outcome of a done handler takes effect
Leaves(out) ==
    /\ exc' = out.exc
    /\ dirs' = out.dirs
    /\ status' = status \o out.msgs
    /\ views' = views \o out.views

\* a chain that reports the end as soon as the last prompt is shown
drive_userinput_chain_early(requested, value) ==
    /\ IF value # None
         THEN /\ collected_userinput' = OrderedDictSet(collected_userinput, current_input, value.text)
              /\ completed_userinput' = Append(completed_userinput, current_input)
         ELSE UNCHANGED <<collected_userinput, completed_userinput>>
    /\ IF requested # <<>>
         THEN /\ requested_userinput' = Tail(requested)
              /\ current_input' = Head(requested)[1]
              /\ input_panel' = <<Head(requested)[2]>>
              /\ shown' = Append(shown, Head(requested)[2])
         ELSE /\ requested_userinput' = requested
              /\ input_panel' = <<>>
              /\ UNCHANGED <<current_input, shown>>
    /\ done_calls' = IF Len(requested) <= 1 THEN done_calls + 1 ELSE done_calls
    /\ UNCHANGED <<exc, dirs, status, views>>

\* lines 63-78, drive_userinput_chain(value) entered with requested_userinput
\* holding `requested`: the value is stored under the key prompted for, then
\* the next pair is taken from the left and its panel is shown; when there is
\* none left (IndexError) done_collecting_userinput is called and runs to its
\* end
drive_userinput_chain(requested, value) ==
    /\ IF value # None
         THEN /\ collected_userinput' = OrderedDictSet(collected_userinput, current_input, value.text)
              /\ completed_userinput' = Append(completed_userinput, current_input)
         ELSE UNCHANGED <<collected_userinput, completed_userinput>>
    /\ IF requested # <<>>
         THEN /\ requested_userinput' = Tail(requested)
              /\ current_input' = Head(requested)[1]
              /\ input_panel' = <<Head(requested)[2]>>
              /\ shown' = Append(shown, Head(requested)[2])
              /\ exc' = "none"
              /\ UNCHANGED <<done_calls, dirs, status, views>>
         ELSE /\ requested_userinput' = requested
              /\ input_panel' = <<>>
              /\ done_calls' = done_calls + 1
              /\ Leaves(done_collecting_userinput(
                            settings, dirs, os_name,
                            IF value # None
                                THEN OrderedDictSet(collected_userinput, current_input,
                                                    value.text)
                            ELSE collected_userinput))
              /\ UNCHANGED <<current_input, shown>>

------------------------------------------------------------------------------
(* Specification SpecFn: the pure functions applied to an argument *)

FnIdle ==
    /\ buffer = <<>>
    /\ sels = <<Region(0, 0)>>
    /\ cmd = "none"
    /\ pc = "idle"
    /\ i = 1
    /\ text = None
    /\ exc = "none"
    /\ status = <<>>
    /\ edits = <<>>
    /\ view0 = [buffer |-> buffer, sels |-> sels]

InitFn ==
    /\ seq \in FnInputs
    /\ wc_map \in MapNames
    /\ call = "none"
    /\ ret = None
    /\ args = NoArgs
    /\ FnIdle
    /\ TplIdle
    /\ NoSession

FnFrame ==
    UNCHANGED <<seq, wc_map, buffer, sels, cmd, pc, i, text, exc, status, edits, view0,
                tplvars, sessvars>>

CallCompl ==
    /\ call = "none"
    /\ call' = "compl"
    /\ ret' = compl(seq, wc_map)
    /\ UNCHANGED args
    /\ FnFrame

CallComplAgain ==
    /\ call = "compl"
    /\ ret.exc = "none"
    /\ call' = "compl_compl"
    /\ ret' = compl(ret.val, wc_map)
    /\ UNCHANGED args
    /\ FnFrame

CallRcompl ==
    /\ call = "none"
    /\ call' = "rcompl"
    /\ ret' = rcompl(seq, wc_map)
    /\ UNCHANGED args
    /\ FnFrame

CallRcomplAgain ==
    /\ call = "rcompl"
    /\ ret.exc = "none"
    /\ call' = "rcompl_rcompl"
    /\ ret' = rcompl(ret.val, wc_map)
    /\ UNCHANGED args
    /\ FnFrame

CallDnaFilter ==
    /\ call = "none"
    /\ call' = "dna_filter"
    /\ ret' = Return(dna_filter(seq))
    /\ UNCHANGED args
    /\ FnFrame

CallRseq ==
    /\ call = "none"
    /\ call' = "rseq"
    /\ ret' = Return(rseq(seq))
    /\ UNCHANGED args
    /\ FnFrame

\* the text ElnSequenceTransformCommand.run computes for a selection holding seq
CallSelectionText ==
    /\ call = "none"
    /\ \E complement \in BOOLEAN, reverse \in BOOLEAN, dna_only \in BOOLEAN :
        /\ args' = [complement |-> complement, reverse |-> reverse,
                    dna_only |-> dna_only, replace |-> TRUE, wc_map |-> wc_map]
        /\ ret' = selection_text(seq, args', None)
    /\ call' = "selection_text"
    /\ FnFrame

NextFn ==
    \/ CallCompl
    \/ CallComplAgain
    \/ CallRcompl
    \/ CallRcomplAgain
    \/ CallDnaFilter
    \/ CallRseq
    \/ CallSelectionText

SpecFn == InitFn /\ [][NextFn]_vars

-----------------------------------------------------------------------------
(* Specification Spec: the commands running on a view *)

Init ==
    /\ \E v \in ViewInits : buffer = v[1] /\ sels = v[2]
    /\ cmd = "none"
    /\ pc = "idle"
    /\ args = NoArgs
    /\ i = 1
    /\ text = None
    /\ exc = "none"
    /\ status = <<>>
    /\ edits = <<>>
    /\ view0 = [buffer |-> buffer, sels |-> sels]
    /\ seq = <<>>
    /\ wc_map = "dna"
    /\ call = "none"
    /\ ret = None
    /\ TplIdle
    /\ NoSession

\* where the loop over the selections stands after visiting selection i
AfterSelection(loop) == IF i + 1 > Len(sels) THEN "done" ELSE loop

\* eln_sequence_transform is invoked: selections = self.view.sel()
RunTransform ==
    /\ pc = "idle"
    /\ \E a \in Flags : args' = a
    /\ cmd' = "eln_sequence_transform"
    /\ pc' = "transform"
    /\ i' = 1
    /\ text' = None
    /\ view0' = [buffer |-> buffer, sels |-> sels]
    /\ UNCHANGED <<buffer, sels, exc, status, edits, fnvars, tplvars, sessvars>>

\* the loop with a try/except around each pass: a failing selection is
\* noted and the loop goes on with the next one
TransformSelection_catch ==
    /\ pc = "transform"
    /\ i <= Len(sels)
    /\ LET selection == sels[i]
           t == selection_text(substr(buffer, selection), args, text)
       IN  IF empty(selection)
             THEN /\ pc' = AfterSelection("transform")
                  /\ i' = i + 1
                  /\ UNCHANGED <<buffer, sels, text, exc, edits>>
           ELSE IF t.exc # "none"
             THEN /\ pc' = AfterSelection("transform")
                  /\ i' = i + 1
                  /\ exc' = t.exc
                  /\ UNCHANGED <<buffer, sels, text, edits>>
           ELSE IF args.replace
             THEN /\ buffer' = replace_buffer(buffer, selection, t.val)
                  /\ sels' = replace_sels(sels, i, t.val)
                  /\ edits' = Append(edits, [op |-> "replace", a |-> selection.a,
                                             b |-> selection.b, text |-> t.val,
                                             src |-> substr(buffer, selection)])
                  /\ text' = t.val
                  /\ pc' = AfterSelection("transform")
                  /\ i' = i + 1
                  /\ UNCHANGED exc
           ELSE   /\ buffer' = insert_buffer(buffer, t.val)
                  /\ sels' = insert_sels(sels, Len(buffer), t.val)
                  /\ edits' = Append(edits, [op |-> "insert", a |-> Len(buffer),
                                             b |-> Len(buffer), text |-> t.val,
                                             src |-> substr(buffer, selection)])
                  /\ text' = t.val
                  /\ pc' = AfterSelection("transform")
                  /\ i' = i + 1
                  /\ UNCHANGED exc
    /\ UNCHANGED <<cmd, args, status, view0, fnvars, tplvars, sessvars>>

\* one pass of the loop of ElnSequenceTransformCommand.run
TransformSelection ==
    /\ pc = "transform"
    /\ i <= Len(sels)
    /\ LET selection == sels[i]
           t == selection_text(substr(buffer, selection), args, text)
       IN  IF empty(selection)
             THEN /\ pc' = AfterSelection("transform")
                  /\ i' = i + 1
                  /\ UNCHANGED <<buffer, sels, text, exc, edits>>
           ELSE IF t.exc # "none"
             THEN /\ pc' = "raised"
                  /\ exc' = t.exc
                  /\ UNCHANGED <<buffer, sels, text, i, edits>>
           ELSE IF args.replace
             THEN /\ buffer' = replace_buffer(buffer, selection, t.val)
                  /\ sels' = replace_sels(sels, i, t.val)
                  /\ edits' = Append(edits, [op |-> "replace", a |-> selection.a,
                                             b |-> selection.b, text |-> t.val,
                                             src |-> substr(buffer, selection)])
                  /\ text' = t.val
                  /\ pc' = AfterSelection("transform")
                  /\ i' = i + 1
                  /\ UNCHANGED exc
           ELSE   /\ buffer' = insert_buffer(buffer, t.val)
                  /\ sels' = insert_sels(sels, Len(buffer), t.val)
                  /\ edits' = Append(edits, [op |-> "insert", a |-> Len(buffer),
                                             b |-> Len(buffer), text |-> t.val,
                                             src |-> substr(buffer, selection)])
                  /\ text' = t.val
                  /\ pc' = AfterSelection("transform")
                  /\ i' = i + 1
                  /\ UNCHANGED exc
    /\ UNCHANGED <<cmd, args, status, view0, fnvars, tplvars, sessvars>>

\* eln_sequence_stats is invoked: selections = self.view.sel()
RunStats ==
    /\ pc = "idle"
    /\ \E dna_only \in BOOLEAN, m \in MapNames :
        args' = [NoArgs EXCEPT !.dna_only = dna_only, !.wc_map = m]
    /\ cmd' = "eln_sequence_stats"
    /\ pc' = "stats"
    /\ i' = 1
    /\ view0' = [buffer |-> buffer, sels |-> sels]
    /\ UNCHANGED <<buffer, sels, text, exc, status, edits, fnvars, tplvars, sessvars>>

\* one pass of the loop of ElnSequenceStats.run
StatsSelection ==
    /\ pc = "stats"
    /\ i <= Len(sels)
    /\ LET selection == sels[i]
           s == selection_stats(substr(buffer, selection), args)
       IN  IF empty(selection)
             THEN /\ pc' = AfterSelection("stats")
                  /\ i' = i + 1
                  /\ UNCHANGED <<exc, status>>
           ELSE IF s.exc # "none"
             THEN /\ pc' = "raised"
                  /\ exc' = s.exc
                  /\ UNCHANGED <<i, status>>
           ELSE   /\ status' = Append(status, s.val)
                  /\ pc' = AfterSelection("stats")
                  /\ i' = i + 1
                  /\ UNCHANGED exc
    /\ UNCHANGED <<buffer, sels, cmd, args, text, edits, view0, fnvars, tplvars, sessvars>>

Next ==
    \/ RunTransform
    \/ TransformSelection
    \/ RunStats
    \/ StatsSelection

Spec == Init /\ [][Next]_vars

-----------------------------------------------------------------------------
(* Specification SpecInput: the create-project command collecting its inputs *)

InitInput ==
    /\ ChainIdle
    /\ \E env \in CreateEnvs :
        /\ settings = env.settings
        /\ dirs = env.dirs
        /\ os_name = env.os_name
    /\ views = <<>>
    /\ experiment = NoExperiment
    /\ seq = <<>>
    /\ wc_map = "dna"
    /\ call = "none"
    /\ ret = None
    /\ args = NoArgs
    /\ FnIdle
    /\ globals = InitGlobals
    /\ notes = <<>>
    /\ quick_panel = None
    /\ merge = None
    /\ returned = <<>>
    /\ view_file_name = None
    /\ content = None
    /\ file_ops = <<>>
    /\ last_merge = None

\* what no handler of the create commands touches
TplFrame ==
    UNCHANGED <<fnvars, buffer, sels, cmd, pc, args, i, text, edits, view0, sessvars,
                os_name>>

\* the captions of the two panels of eln_create_new_experiment
ExperimentCaptions == {"Experiment ID:", "Exp title desc:"}

\* the texts typed into them: one of white space besides
ExperimentInputs == InputValues \cup {Entered(<<" ">>)}

\* eln_create_new_project is invoked (lines 111-119): the requested list is
\* read from the settings, and collect_userinput (lines 55-61) starts the
\* chain with drive_userinput_chain()
RunCreateNewProject ==
    /\ input_panel = <<>>
    /\ chain.runs + experiment.runs < MaxRuns
    /\ \E requested \in RequestedLists :
        /\ drive_userinput_chain(requested, None)
        /\ chain' = [runs |-> chain.runs + 1, requested |-> requested,
                     shown |-> Len(shown), done |-> done_calls,
                     completed |-> Len(completed_userinput), cancelled |-> FALSE]
    /\ UNCHANGED experiment
    /\ TplFrame

\* the panel's on_done: the user enters a text and the panel calls
\* drive_userinput_chain(value)
AnswerPrompt ==
    /\ input_panel # <<>>
    /\ input_panel[1] \notin ExperimentCaptions
    /\ \E value \in InputValues : drive_userinput_chain(requested_userinput, value)
    /\ UNCHANGED <<chain, experiment>>
    /\ TplFrame

\* the panel is dismissed: on_cancel is None, nothing of the command runs
CancelPrompt ==
    /\ input_panel # <<>>
    /\ input_panel[1] \notin ExperimentCaptions
    /\ input_panel' = <<>>
    /\ chain' = [chain EXCEPT !.cancelled = TRUE]
    /\ UNCHANGED <<requested_userinput, current_input, collected_userinput,
                   completed_userinput, shown, done_calls, exc, status, dirs, views,
                   experiment>>
    /\ TplFrame

\* what the handlers of eln_create_new_experiment leave alone: the state of
\* the create-project command
ChainFrame ==
    UNCHANGED <<requested_userinput, current_input, collected_userinput,
                completed_userinput, shown, done_calls, chain>>

\* ElnCreateNewExperimentCommand.titledesc_received (eln_utils.py lines
\* 316-320): the input is stripped and done_collecting_variables runs
titledesc_received(expid, titledesc) ==
    /\ experiment' = [experiment EXCEPT !.expid = Entered(expid),
                                        !.titledesc = Entered(strip(titledesc))]
    /\ input_panel' = <<>>
    /\ Leaves(done_collecting_variables(settings, dirs, os_name, expid, strip(titledesc)))

\* eln_create_new_experiment is invoked without arguments (eln_utils.py
\* lines 297-306): expid is None and the first panel is shown
RunCreateNewExperiment ==
    /\ input_panel = <<>>
    /\ chain.runs + experiment.runs < MaxRuns
    /\ experiment' = [runs |-> experiment.runs + 1, expid |-> None, titledesc |-> None]
    /\ input_panel' = <<"Experiment ID:">>
    /\ UNCHANGED <<exc, status, dirs, views>>
    /\ ChainFrame
    /\ TplFrame

\* the on_done of the first panel, expid_received (eln_utils.py lines
\* 308-314)
ExpidReceived ==
    /\ input_panel = <<"Experiment ID:">>
    /\ \E value \in ExperimentInputs :
        IF experiment.titledesc # None
            THEN titledesc_received(strip(value.text), experiment.titledesc.text)
        ELSE /\ experiment' = [experiment EXCEPT !.expid = Entered(strip(value.text))]
             /\ input_panel' = <<"Exp title desc:">>
             /\ exc' = "none"
             /\ UNCHANGED <<status, dirs, views>>
    /\ ChainFrame
    /\ TplFrame

\* the on_done of the second panel, titledesc_received
TitledescReceived ==
    /\ input_panel = <<"Exp title desc:">>
    /\ \E value \in ExperimentInputs : titledesc_received(experiment.expid.text, value.text)
    /\ ChainFrame
    /\ TplFrame

\* a panel of eln_create_new_experiment is dismissed: on_cancel is None
CancelExperimentPrompt ==
    /\ input_panel # <<>>
    /\ input_panel[1] \in ExperimentCaptions
    /\ input_panel' = <<>>
    /\ UNCHANGED <<exc, status, dirs, views, experiment>>
    /\ ChainFrame
    /\ TplFrame

NextInput ==
    \/ RunCreateNewProject
    \/ AnswerPrompt
    \/ CancelPrompt
    \/ RunCreateNewExperiment
    \/ ExpidReceived
    \/ TitledescReceived
    \/ CancelExperimentPrompt

SpecInput == InitInput /\ [][NextInput]_vars

------------------------------------------------------------------------------
(* Specification SpecSession: commands run one after the other on a view *)

InitSession ==
    /\ \E v \in SessionViews : buffer = v[1] /\ sels = v[2]
    /\ cmd = "none"
    /\ pc = "idle"
    /\ args = NoArgs
    /\ i = 1
    /\ text = None
    /\ exc = "none"
    /\ status = <<>>
    /\ edits = <<>>
    /\ view0 = [buffer |-> buffer, sels |-> sels]
    /\ seq = <<>>
    /\ wc_map = "dna"
    /\ call = "none"
    /\ ret = None
    /\ TplIdle
    /\ globals = InitGlobals
    /\ notes = NoteTexts
    /\ settings \in SettingsFiles
    /\ quick_panel = None
    /\ merge = None
    /\ returned = <<>>
    /\ view_file_name \in ViewFileNames
    /\ content = None
    /\ file_ops = <<>>
    /\ last_merge = None

\* eln_insert_snippet that remembers a snippet text that is no key
\* (snippets.setdefault(snippet, snippet))
InsertSnippet_setdefault ==
    /\ pc = "idle"
    /\ \E snippet \in SnippetArgs, position \in {None, At(0)}, now \in Clock :
        LET p == IF position = None THEN sels[1].a ELSE position.at
            t == format_date(DictGet(globals.snippets, snippet), now)
        IN  /\ globals' = [globals EXCEPT
                    !.snippets = [k \in DOMAIN @ \cup {snippet} |-> DictGet(@, k)]]
            /\ IF t.exc # "none"
                 THEN /\ pc' = "raised"
                      /\ exc' = t.exc
                      /\ UNCHANGED <<buffer, sels, edits>>
               ELSE   /\ buffer' = view_insert(buffer, p, t.val)
                      /\ sels' = view_insert_sels(sels, p, t.val)
                      /\ edits' = Append(edits, [op |-> "insert", a |-> p, b |-> p,
                                                 text |-> t.val, src |-> <<>>])
                      /\ pc' = "done"
                      /\ UNCHANGED exc
    /\ cmd' = "eln_insert_snippet"
    /\ view0' = [buffer |-> buffer, sels |-> sels]
    /\ UNCHANGED <<args, i, text, status, notes, settings, quick_panel, merge, returned,
                   view_file_name, content, file_ops, last_merge, fnvars, tplvars>>

\* ElnInsertSnippetCommand.run (lines 252-264)
InsertSnippet ==
    /\ pc = "idle"
    /\ \E snippet \in SnippetArgs, position \in {None, At(0)}, now \in Clock :
        LET p == IF position = None THEN sels[1].a ELSE position.at
            t == format_date(DictGet(globals.snippets, snippet), now)
        IN  IF t.exc # "none"
              THEN /\ pc' = "raised"
                   /\ exc' = t.exc
                   /\ UNCHANGED <<buffer, sels, edits>>
            ELSE   /\ buffer' = view_insert(buffer, p, t.val)
                   /\ sels' = view_insert_sels(sels, p, t.val)
                   /\ edits' = Append(edits, [op |-> "insert", a |-> p, b |-> p,
                                              text |-> t.val, src |-> <<>>])
                   /\ pc' = "done"
                   /\ UNCHANGED exc
    /\ cmd' = "eln_insert_snippet"
    /\ view0' = [buffer |-> buffer, sels |-> sels]
    /\ UNCHANGED <<args, i, text, status, sessvars, fnvars, tplvars>>

\* ElnMergeJournalNotesCommand.run (lines 93-172) on a saved view with the
\* journal directories configured: the notes files of at least min_file_size
\* bytes are offered by base name in a quick panel
RunMergeNotes ==
    /\ pc = "idle"
    /\ \E position \in {None, At(-1)}, a \in MergeFlags, min_file_size \in MinFileSizes :
        LET filepaths == SelectSeq(NoteFiles, LAMBDA f : Len(notes[f]) >= min_file_size)
            filebasenames == [k \in 1..Len(filepaths) |-> basename[filepaths[k]]]
        IN  /\ merge' = [position |-> resolve_position(position, sels, buffer),
                         move |-> a.move, add_journal_header |-> a.add_journal_header,
                         paragraphs_to_bullet |-> a.paragraphs_to_bullet,
                         add_timestamp |-> a.add_timestamp, filepaths |-> filepaths,
                         filebasenames |-> filebasenames]
            /\ IF filepaths = <<>>
                 THEN /\ status' = Append(status, [msg |-> "No files larger than {} bytes found in {}",
                                                   size |-> min_file_size])
                      /\ pc' = "done"
                      /\ UNCHANGED quick_panel
               ELSE   /\ quick_panel' =
                            [items |-> filebasenames,
                             selected_index |-> selected_index(view_file_name, filepaths, settings)]
                      /\ pc' = "panel"
                      /\ UNCHANGED status
    /\ cmd' = "eln_merge_journal_notes"
    /\ view0' = [buffer |-> buffer, sels |-> sels]
    /\ UNCHANGED <<buffer, sels, args, i, text, exc, edits, globals, notes, settings,
                   returned, view_file_name, content, file_ops, last_merge, fnvars, tplvars>>

\* on_file_selected(index) (lines 174-212), called by the quick panel, up to
\* the call of eln_insert_text: the chosen path is stored in the settings,
\* the file is read, the text is built (its two readings of datetime.now()
\* in the same minute) and with move the file is overwritten
OnFileSelected ==
    /\ pc = "panel"
    /\ quick_panel' = None
    /\ \E index \in -1..(Len(quick_panel.items) - 1), now \in Clock :
        /\ args' = [index |-> index]
        /\ IF cancelled(index)
             THEN /\ pc' = "done"
                  /\ UNCHANGED <<notes, settings, content, file_ops, last_merge>>
           ELSE LET filename == file_at(merge.filepaths, index)
                    reading == [op |-> "read", path |-> filename, data |-> notes[filename]]
                    write == [op |-> "write", path |-> filename, data |-> <<"\n">>]
                IN  /\ settings' = ("last_external_journal" :> filename) @@ settings
                    /\ content' = merged_content(notes[filename], merge, globals.snippets,
                                                 now, now)
                    /\ notes' = IF merge.move THEN [notes EXCEPT ![filename] = <<"\n">>]
                                ELSE notes
                    /\ file_ops' = file_ops \o (IF merge.move THEN <<reading, write>> ELSE <<reading>>)
                    /\ last_merge' = [items |-> quick_panel.items, index |-> index]
                    /\ pc' = "insert"
    /\ UNCHANGED <<buffer, sels, cmd, i, text, exc, status, edits, view0, globals, merge,
                   returned, view_file_name, fnvars, tplvars>>

\* lines 217-218: on_file_selected runs eln_insert_text (lines 228-236) with
\* the text built and the stored position, and reports the move
MergeInsertText ==
    /\ pc = "insert"
    /\ LET p == resolve_position(At(merge.position), sels, buffer)
       IN  /\ buffer' = view_insert(buffer, p, content)
           /\ sels' = view_insert_sels(sels, p, content)
           /\ edits' = Append(edits, [op |-> "insert", a |-> p, b |-> p, text |-> content,
                                      src |-> file_ops[1].data])
           /\ status' = Append(status, [msg |-> "Moved notes from {} to current cursor position.",
                                        file |-> file_ops[1].path])
    /\ pc' = "done"
    /\ UNCHANGED <<cmd, args, i, text, exc, view0, sessvars, fnvars, tplvars>>

\* the command has ended, by return or by its exception: the editor takes the
\* next command
CommandReturns ==
    /\ pc \in {"done", "raised"}
    /\ Len(returned) < MaxCmds - 1
    /\ returned' = Append(returned, cmd)
    /\ pc' = "idle"
    /\ cmd' = "none"
    /\ args' = NoArgs
    /\ i' = 1
    /\ text' = None
    /\ exc' = "none"
    /\ status' = <<>>
    /\ edits' = <<>>
    /\ view0' = [buffer |-> buffer, sels |-> sels]
    /\ content' = None
    /\ file_ops' = <<>>
    /\ UNCHANGED <<buffer, sels, globals, notes, settings, quick_panel, merge, view_file_name,
                   last_merge, fnvars, tplvars>>

NextSession ==
    \/ RunTransform
    \/ TransformSelection
    \/ RunStats
    \/ StatsSelection
    \/ InsertSnippet
    \/ RunMergeNotes
    \/ OnFileSelected
    \/ MergeInsertText
    \/ CommandReturns

SpecSession == InitSession /\ [][NextSession]_vars

------------------------------------------------------------------------------
(* Specification SpecText: eln_insert_text run on a view *)

\* the values of the text argument of eln_insert_text
InsertTexts == {<<>>, <<"t">>, <<"G", "\n">>}

\* the values of the position argument: None, -1 and the points of the buffer
Positions(buf) == {None, At(-1)} \cup {At(p) : p \in 0..Len(buf)}

\* ElnInsertTextCommand.run (lines 228-236)
InsertText ==
    /\ pc = "idle"
    /\ \E t \in InsertTexts, position \in Positions(buffer) :
        LET p == resolve_position(position, sels, buffer)
        IN  /\ args' = [text |-> t, position |-> position]
            /\ buffer' = view_insert(buffer, p, t)
            /\ sels' = view_insert_sels(sels, p, t)
            /\ edits' = Append(edits, [op |-> "insert", a |-> p, b |-> p, text |-> t,
                                       src |-> <<>>])
    /\ cmd' = "eln_insert_text"
    /\ pc' = "done"
    /\ view0' = [buffer |-> buffer, sels |-> sels]
    /\ UNCHANGED <<i, text, exc, status, fnvars, tplvars, sessvars>>

NextText == InsertText

SpecText == Init /\ [][NextText]_vars

------------------------------------------------------------------------------
(* Notions the properties are stated with *)

\* the Watson-Crick pairing of the DNA bases
WatsonCrick == [A |-> "T", T |-> "A", G |-> "C", C |-> "G"]

\* the reverse complement of a core over {A,T,G,C}
ReverseComplement(core) ==
    [k \in 1..Len(core) |-> WatsonCrick[core[Len(core) + 1 - k]]]

IsUpperCase(s) == \A k \in 1..Len(s) : s[k] \notin DOMAIN LowerToUpper \cup {"ß"}

AnyCaseBases == Bases \cup {"a", "t", "g", "c"}

\* out is up without its characters outside keep, in the same order
RECURSIVE KeepsOnly(_, _, _)
KeepsOnly(up, out, keep) ==
    IF up = <<>> THEN out = <<>>
    ELSE IF Head(up) \in keep
        THEN out # <<>> /\ Head(out) = Head(up) /\ KeepsOnly(Tail(up), Tail(out), keep)
    ELSE KeepsOnly(Tail(up), out, keep)

-----------------------------------------------------------------------------
(* Properties of the pure functions, checked under SpecFn *)

\* C1 as stated: for every sequence s over {A,C,G,T} in any letter case and
\* the 'dna' map, rcompl(rcompl(s)) returns s exactly.
C1_RcomplTwiceIsIdentity ==
    (call = "rcompl_rcompl" /\ wc_map = "dna" /\ Range(seq) \subseteq AnyCaseBases)
        => ret = Return(seq)

\* C1 amended: for every sequence s over {A,C,G,T} in any letter case and
\* the 'dna' map, rcompl(rcompl(s)) returns s in upper case; it returns s
\* exactly if and only if s is written in upper case.
C1_RcomplTwiceIsUpper ==
    (call = "rcompl_rcompl" /\ wc_map = "dna" /\ Range(seq) \subseteq AnyCaseBases)
        => /\ ret.exc = "none"
           /\ Len(ret.val) = Len(seq)
           /\ \A k \in 1..Len(seq) :
                ret.val[k] = (IF seq[k] \in Bases THEN seq[k] ELSE LowerToUpper[seq[k]])
           /\ (ret.val = seq) <=> IsUpperCase(seq)

C1_Witness ==
    /\ call = "rcompl_rcompl"
    /\ wc_map = "dna"
    /\ seq = ex_atgc
    /\ ret = Return(ex_ATGC)

\* C2 as stated: for every core over {A,T,G,C}, rcompl applied to
\* "5'-" + core + "-3'" with the 'dna' map returns
\* "5'-" + reverse-complement(core) + "-3'".
C2_RcomplKeepsMarkers ==
    (call = "rcompl" /\ wc_map = "dna")
        => \A core \in Cores :
             seq = Marked5(core) => ret = Return(Marked5(ReverseComplement(core)))

\* C2 amended: for every core over {A,T,G,C}, rcompl applied to
\* "5'-" + core + "-3'" with the 'dna' map returns
\* "'5-" + reverse-complement(core) + "-'3", each marker written quote first;
\* the text the transform command computes for that selection (complement and
\* reverse set, dna_only not set) has the markers repaired and is
\* "5'-" + reverse-complement(core) + "-3'".
C2_TransformKeepsMarkers ==
    \A core \in Cores :
        (seq = Marked5(core) /\ wc_map = "dna")
            => /\ call = "rcompl"
                    => ret = Return(<<"'", "5", "-">> \o ReverseComplement(core)
                                        \o <<"-", "'", "3">>)
               /\ (call = "selection_text" /\ args.complement /\ args.reverse
                        /\ ~args.dna_only)
                    => ret = Return(Marked5(ReverseComplement(core)))

C2_Witness ==
    /\ call = "selection_text"
    /\ args.complement /\ args.reverse /\ ~args.dna_only
    /\ wc_map = "dna"
    /\ seq = ex_marked
    /\ ret = Return(Marked5(<<"G", "C", "A", "T">>))

\* C3: compl with the 'dna' map replaces, position by position and without
\* reordering, every A by T, T by A, G by C and C by G of the (upper-cased)
\* sequence, and compl("ATGC", "dna") is "TACG".
C3_ComplDnaPairs ==
    (call = "compl" /\ wc_map = "dna")
        => /\ ret.exc = "none"
           /\ Len(ret.val) = Len(upper(seq))
           /\ \A k \in 1..Len(ret.val) :
                upper(seq)[k] \in Bases => ret.val[k] = WatsonCrick[upper(seq)[k]]
           /\ IsUpperCase(seq) =>
                \A k \in 1..Len(seq) : seq[k] \in Bases => ret.val[k] = WatsonCrick[seq[k]]
           /\ seq = ex_ATGC => ret.val = <<"T", "A", "C", "G">>

C3_Witness ==
    /\ call = "compl"
    /\ wc_map = "dna"
    /\ seq = ex_ATGC
    /\ ret = Return(<<"T", "A", "C", "G">>)

\* C4: compl preserves length and order for every input string and every
\* defined map: the output has as many characters as the input and its k-th
\* character is the one compl derives from the k-th input character alone.
C4_ComplPreservesLength ==
    (call = "compl" /\ wc_map \in DOMAIN wc_maps)
        => /\ ret.exc = "none"
           /\ Len(ret.val) = Len(seq)
           /\ \A k \in 1..Len(seq) : <<ret.val[k]>> = compl(<<seq[k]>>, wc_map).val

C6_UnmappedUnchanged ==
    (call = "compl" /\ wc_map \in DOMAIN wc_maps)
        => \A k \in 1..Len(seq) :
             seq[k] \notin DOMAIN wc_maps[wc_map]
                => k <= Len(ret.val) /\ ret.val[k] = seq[k]

\* C6 amended: every character of the upper-cased input (seq.upper()) that
\* has no entry in the chosen map appears in the output unchanged at the
\* same position; an input character in lower case is therefore not kept:
\* it appears upper-cased ("x" gives "X") or, when its upper-case form is in
\* the map, complemented ("a" gives "T" with the 'dna' map).
C6_UnmappedUpperUnchanged ==
    (call = "compl" /\ wc_map \in DOMAIN wc_maps)
        => /\ ret.exc = "none"
           /\ Len(ret.val) = Len(upper(seq))
           /\ \A k \in 1..Len(ret.val) :
                upper(seq)[k] \notin DOMAIN wc_maps[wc_map] => ret.val[k] = upper(seq)[k]
           /\ (seq = <<"a", "x">> /\ wc_map = "dna") => ret.val = <<"T", "X">>

C6_Witness ==
    /\ call = "compl"
    /\ wc_map = "dna"
    /\ seq = <<"a", "x">>
    /\ ret = Return(<<"T", "X">>)

C8_DnaFilterSubsequence ==
    call = "dna_filter"
        => /\ ret.exc = "none"
           /\ Range(ret.val) \subseteq {"A", "T", "C", "G", "U"}
           /\ KeepsOnly(upper(seq), ret.val, {"A", "T", "C", "G", "U"})
           /\ \A k \in 1..Len(seq) :
                seq[k] \in {"A", "T", "C", "G", "U", "a"} => ret.val # <<>>
           /\ seq = ex_filter => ret.val = ex_ATGC

C8_Witness ==
    /\ call = "dna_filter"
    /\ seq = ex_filter
    /\ ret = Return(ex_ATGC)

-----------------------------------------------------------------------------
(* Properties of the commands, checked under Spec *)

\* the number of characters of s that are in S
NumOf(s, S) == Cardinality({k \in 1..Len(s) : s[k] \in S})

\* the indices of the non-empty selections the loop has passed, in order
PassedNonEmpty ==
    SelectSeq([k \in 1..(i - 1) |-> k], LAMBDA k : ~empty(sels[k]))

\* r is the ratio g/t rounded to two decimals, in hundredths
RoundsTo(r, g, t) ==
    /\ 2 * (100 * g - r * t) <= t
    /\ 2 * (r * t - 100 * g) <= t

\* C9: when a selection carrying terminus markers is reversed without
\* complementation (complement=false, reverse=true), the text written for
\* "5'-" + core + "-3'" is "3'-" + reversed(core) + "-5'".
C9_ReverseSwapsMarkers ==
    (cmd = "eln_sequence_transform" /\ ~args.complement /\ args.reverse /\ ~args.dna_only)
        => \A k \in 1..Len(edits) : \A core \in Cores :
             edits[k].src = Marked5(core) => edits[k].text = Marked3(rseq(core))

\* C10 as stated: for every non-empty selection, the statistics command
\* reports GC content as (count of G + count of C) divided by
\* (count of A + T + G + C), counting the bases of the selection text.
C10_GcReportedForEverySelection ==
    cmd = "eln_sequence_stats"
        => /\ pc # "raised"
           /\ Len(status) = Len(PassedNonEmpty)
           /\ \A j \in 1..Len(status) :
                LET txt == substr(buffer, sels[PassedNonEmpty[j]]) IN
                /\ status[j].gc = NumOf(txt, {"G", "C"})
                /\ status[j].tot = NumOf(txt, Bases)
                /\ RoundsTo(status[j].ratio, status[j].gc, status[j].tot)

\* C10 amended: for every non-empty selection whose counted A/T/G/C total
\* is positive, the statistics command reports GC content as (count of G +
\* count of C) divided by (count of A + T + G + C), rounded to two decimals,
\* where the counts are those of the upper-case letters A, T, G, C in the
\* selection text, or in dna_filter(selection text) when dna_only is set;
\* for "ATGC" it reports 0.50 (2/4).  A non-empty selection whose counted
\* total is 0 gets no report: the command ends there with a division by zero.
C10_GcReportedWhenCounted ==
    cmd = "eln_sequence_stats"
        => LET Counted(r) == IF args.dna_only THEN dna_filter(substr(buffer, r))
                             ELSE substr(buffer, r)
           IN
           /\ Len(status) = Len(PassedNonEmpty)
           /\ \A j \in 1..Len(status) :
                LET txt == Counted(sels[PassedNonEmpty[j]]) IN
                /\ status[j].gc = NumOf(txt, {"G", "C"})
                /\ status[j].tot = NumOf(txt, Bases)
                /\ status[j].tot > 0
                /\ RoundsTo(status[j].ratio, status[j].gc, status[j].tot)
           /\ pc = "raised"
                => /\ exc = "ZeroDivisionError"
                   /\ ~empty(sels[i])
                   /\ NumOf(Counted(sels[i]), Bases) = 0
           /\ (pc = "done" /\ buffer = ex_ATGC)
                => status = <<[gc |-> 2, tot |-> 4, ratio |-> 50]>>

C10_Witness ==
    /\ cmd = "eln_sequence_stats"
    /\ pc = "done"
    /\ buffer = ex_ATGC
    /\ status = <<[gc |-> 2, tot |-> 4, ratio |-> 50]>>

\* the text of selection k when the command was invoked
Text0(k) == SubSeq(view0.buffer, view0.sels[k].a + 1, view0.sels[k].b)

\* the indices of the selections passed by the loop that were not empty when
\* the command was invoked, in order
PassedNonEmpty0 ==
    SelectSeq([k \in 1..(i - 1) |-> k], LAMBDA k : view0.sels[k].a < view0.sels[k].b)

\* the loop stands at a selection that is not empty
AtNonEmpty(loop) == pc = loop /\ i <= Len(sels) /\ sels[i].a < sels[i].b

\* the text the statistics command counts in selection i
CountedAt ==
    LET s == SubSeq(buffer, sels[i].a + 1, sels[i].b) IN
    IF args.dna_only THEN dna_filter(s) ELSE s

\* C11: the statistics command on a non-empty selection whose counted
\* A/T/G/C total is 0 fails with a division by zero and reports no GC value
\* for that selection.
C11_ZeroTotalFails ==
    [][(AtNonEmpty("stats") /\ NumOf(CountedAt, Bases) = 0)
        => /\ pc' = "raised"
           /\ exc' = "ZeroDivisionError"
           /\ status' = status]_vars

C11_Witness ==
    /\ cmd = "eln_sequence_stats"
    /\ pc = "raised"
    /\ exc = "ZeroDivisionError"
    /\ Len(sels) = 2
    /\ i = 2
    /\ Len(status) = 1

\* C12: an empty selection is skipped by the transform command and by the
\* statistics command: no error is raised, nothing is written to the buffer,
\* nothing is reported, and the loop goes on with the next selection.
C12_EmptySelectionSkipped ==
    [][(pc \in {"transform", "stats"} /\ i <= Len(sels) /\ sels[i].a = sels[i].b)
        => /\ buffer' = buffer
           /\ sels' = sels
           /\ edits' = edits
           /\ status' = status
           /\ exc' = "none"
           /\ pc' # "raised"
           /\ i' = i + 1]_vars

C12_Witness ==
    /\ pc = "done"
    /\ Len(view0.sels) = 2
    /\ view0.sels[1].a = view0.sels[1].b
    /\ view0.sels[2].a < view0.sels[2].b
    /\ Len(edits) + Len(status) = 1

\* C13: for each non-empty selection the transformed text is written exactly
\* once: with replace=true it replaces the range of the selection and the
\* rest of the buffer is unchanged; with replace=false it is inserted at the
\* end of the buffer and all text that was there is unchanged.  The buffer
\* changes in no other step.
C13_WrittenOnce ==
    [][/\ (AtNonEmpty("transform") /\ pc' # "raised")
            => /\ i' = i + 1
               /\ Len(edits') = Len(edits) + 1
               /\ SubSeq(edits', 1, Len(edits)) = edits
               /\ LET t == edits'[Len(edits')].text IN
                  IF args.replace
                    THEN buffer' = SubSeq(buffer, 1, sels[i].a) \o t
                                        \o SubSeq(buffer, sels[i].b + 1, Len(buffer))
                    ELSE buffer' = buffer \o t
       /\ (buffer' # buffer \/ edits' # edits)
            => (AtNonEmpty("transform") /\ pc' # "raised")]_vars

C13_Witness ==
    /\ cmd = "eln_sequence_transform"
    /\ pc = "done"
    /\ ~args.replace
    /\ Len(edits) = 2
    /\ buffer = view0.buffer \o edits[1].text \o edits[2].text
    /\ edits[2].text # <<>>

\* the computation of the text of a selection holding s fails: the map name
\* is not defined and there is a character to map, or neither complement nor
\* reverse is set and no text was ever computed
TransformFails(s) ==
    LET sq == IF args.dna_only THEN dna_filter(s) ELSE s IN
    IF args.complement THEN args.wc_map \notin {"dna", "rna"} /\ sq # <<>>
    ELSE ~args.reverse

\* C14: if computing the transformed text of a selection fails, the buffer
\* content of that selection is left exactly as it was when the command was
\* invoked, and nothing is written for it.
C14_FailureWritesNothing ==
    [][(AtNonEmpty("transform") /\ TransformFails(SubSeq(buffer, sels[i].a + 1, sels[i].b)))
        => /\ pc' = "raised"
           /\ buffer' = buffer
           /\ sels' = sels
           /\ edits' = edits
           /\ SubSeq(buffer', sels'[i].a + 1, sels'[i].b) = Text0(i)]_vars

C14_Witness ==
    /\ cmd = "eln_sequence_transform"
    /\ pc = "raised"
    /\ i = 2
    /\ Len(edits) = 1
    /\ args.replace
    /\ buffer # view0.buffer
    /\ SubSeq(buffer, sels[2].a + 1, sels[2].b) = Text0(2)

\* C15: a failure while processing one selection ends the command there:
\* the exception is not caught, every selection before the failing one has
\* been processed, and no selection after it is processed or written.
C15_FailureAbortsCommand ==
    /\ exc # "none" <=> pc = "raised"
    /\ pc = "raised"
        => /\ i <= Len(sels)
           /\ Len(edits) + Len(status) = Len(PassedNonEmpty0)
           /\ \A j \in i..Len(sels) :
                SubSeq(buffer, sels[j].a + 1, sels[j].b) = Text0(j)

C15_Witness ==
    /\ pc = "raised"
    /\ Len(sels) = 2
    /\ i = 1
    /\ sels[2].a < sels[2].b
    /\ edits = <<>>
    /\ status = <<>>

\* C16: within one invocation of the transform command the non-empty
\* selections are processed one after the other in their order, and the text
\* written for a selection is a function of the text that selection had when
\* the command was invoked and of the command flags only.
C16_SelectionsIndependent ==
    cmd = "eln_sequence_transform"
        => /\ Len(edits) = Len(PassedNonEmpty0)
           /\ \A k \in 1..Len(edits) :
                /\ edits[k].src = Text0(PassedNonEmpty0[k])
                /\ edits[k].text = selection_text(Text0(PassedNonEmpty0[k]), args, None).val
           /\ \A j \in i..Len(sels) :
                /\ sels[j].b <= Len(buffer)
                /\ SubSeq(buffer, sels[j].a + 1, sels[j].b) = Text0(j)

C16_Witness ==
    /\ cmd = "eln_sequence_transform"
    /\ pc = "done"
    /\ args.replace
    /\ Len(edits) = 2
    /\ Len(edits[1].text) < Len(edits[1].src)
    /\ edits[2].src = Text0(2)
    /\ edits[2].src # <<>>

\* the base pairing of each defined map on the characters dna_filter keeps
FilteredPairs ==
    [dna |-> [A |-> "T", T |-> "A", G |-> "C", C |-> "G", U |-> "U"],
     rna |-> [A |-> "U", U |-> "A", G |-> "C", C |-> "G", T |-> "T"]]

\* C17: in the transform command the dna_only filter runs before the
\* complement/reverse step: with dna_only, complement and reverse all set,
\* the text written is the reverse complement of dna_filter(selection text),
\* and a selection that the filter leaves empty is written as the empty text
\* without the map being looked up.
C17_FilterBeforeComplement ==
    (cmd = "eln_sequence_transform" /\ args.dna_only /\ args.complement /\ args.reverse)
        => /\ \A k \in 1..Len(edits) :
                LET f == dna_filter(edits[k].src) IN
                /\ Len(edits[k].text) = Len(f)
                /\ f # <<>> => args.wc_map \in {"dna", "rna"}
                /\ \A j \in 1..Len(f) :
                     edits[k].text[j] = FilteredPairs[args.wc_map][f[Len(f) + 1 - j]]
           /\ pc = "raised"
                => /\ exc = "KeyError"
                   /\ dna_filter(SubSeq(buffer, sels[i].a + 1, sels[i].b)) # <<>>

C17_Witness ==
    /\ cmd = "eln_sequence_transform"
    /\ args.dna_only /\ args.complement /\ args.reverse
    /\ pc = "done"
    /\ Len(edits) = 1
    /\ edits[1].src = ex_filter
    /\ edits[1].text = <<"G", "C", "A", "T">>

-----------------------------------------------------------------------------
(* Properties of the base maps, checked under SpecFn *)

------------------------------------------------------------------------------
(* Properties of the user-input chain, checked under SpecInput *)

\* the prompts shown, the prompts answered and the calls of
\* done_collecting_userinput since the create command was invoked last
PromptsShown == Len(shown) - chain.shown

PromptsAnswered == Len(completed_userinput) - chain.completed

DoneCalled == done_calls - chain.done

\* C20: in the user-input chain the prompts are shown one at a time in the
\* order of the requested (key, description) list, and
\* done_collecting_userinput is called exactly once, after the last requested
\* prompt has been answered and never before; if a prompt is cancelled it is
\* never called.
C20_ChainInOrderDoneOnce ==
    chain.runs > 0
        => /\ PromptsShown <= Len(chain.requested)
           /\ \A k \in 1..PromptsShown : shown[chain.shown + k] = chain.requested[k][2]
           /\ \A k \in 1..PromptsAnswered :
                completed_userinput[chain.completed + k] = chain.requested[k][1]
           /\ requested_userinput = SubSeq(chain.requested, PromptsShown + 1, Len(chain.requested))
           /\ IF input_panel # <<>> /\ input_panel[1] \notin ExperimentCaptions
                THEN /\ input_panel = <<chain.requested[PromptsShown][2]>>
                     /\ PromptsAnswered = PromptsShown - 1
                     /\ ~chain.cancelled
              ELSE IF chain.cancelled
                THEN PromptsAnswered = PromptsShown - 1
              ELSE PromptsAnswered = PromptsShown
           /\ DoneCalled = (IF PromptsAnswered = Len(chain.requested) THEN 1 ELSE 0)
           /\ chain.cancelled => DoneCalled = 0

C20_Witness ==
    /\ chain.runs = 2
    /\ chain.shown = 2
    /\ chain.done = 0
    /\ Len(chain.requested) = 2
    /\ PromptsAnswered = 2
    /\ DoneCalled = 1
    /\ input_panel = <<>>

\* C29: across invocations of the create-project command, when
\* done_collecting_userinput has been called in the current invocation,
\* collected_userinput holds exactly one entry per key requested in the
\* current invocation and no entry left over from an earlier invocation.
C29_CollectedIsCurrentInvocation ==
    (chain.runs > 0 /\ DoneCalled = 1)
        => /\ Keys(collected_userinput) = Keys(chain.requested)
           /\ Len(collected_userinput) = Cardinality(Keys(chain.requested))

------------------------------------------------------------------------------
(* Properties of the create commands, checked under SpecInput *)

\* the step is a run of titledesc_received, and with it of
\* done_collecting_variables
ExperimentDoneStep ==
    /\ input_panel # <<>>
    /\ input_panel[1] \in ExperimentCaptions
    /\ input_panel' = <<>>
    /\ experiment'.titledesc # None

\* the step holds a call of done_collecting_userinput
ProjectDoneStep == done_calls' = done_calls + 1

\* C24: if all collected inputs are empty (expid and titledesc both empty
\* after stripping for a new experiment, every collected value empty for a
\* new project) the create command aborts before any side effect: no
\* directory is created, no new view is opened and no text is inserted.
C24_EmptyInputsAbort ==
    [][(\/ /\ ExperimentDoneStep
           /\ experiment'.expid.text = <<>>
           /\ experiment'.titledesc.text = <<>>
        \/ /\ ProjectDoneStep
           /\ \A k \in 1..Len(collected_userinput') : collected_userinput'[k][2] = <<>>)
        => /\ dirs' = dirs
           /\ views' = views
           /\ buffer' = buffer]_vars

C24_Witness ==
    /\ "eln_experiments_basedir" \in DOMAIN settings
    /\ "eln_projects_title_fmt" \in DOMAIN settings
    /\ dirs = {BaseDir}
    /\ experiment = [runs |-> 1, expid |-> Entered(<<>>), titledesc |-> Entered(<<>>)]
    /\ chain.runs = 1
    /\ DoneCalled = 1
    /\ collected_userinput = <<<<"projectid", <<>>>>, <<"titledesc", <<>>>>>>
    /\ input_panel = <<>>
    /\ views = <<>>
    /\ exc = "none"

\* the folder of the new page cannot be made: the configured base directory
\* does not exist, or the folder name format is empty
NoFolderFor(basedir_key, foldername_key) ==
    /\ basedir_key \in DOMAIN settings
    /\ settings[basedir_key] # <<>>
    /\ \/ settings[basedir_key] \notin dirs
       \/ (foldername_key \in DOMAIN settings /\ settings[foldername_key] = <<>>)

\* the step opens one more view, names it, inserts the text and saves, and
\* no exception leaves the handler
CompletesWithView ==
    /\ exc' = "none"
    /\ Len(views') = Len(views) + 1
    /\ views'[Len(views')].name # None
    /\ views'[Len(views')].saved

\* C30: when the configured base directory does not exist (or the folder
\* name format is empty) and at least one input is not empty, creating a new
\* experiment or project still runs to completion: the new view is opened,
\* named and filled, and no unhandled error occurs after the view was
\* created.
C30_MissingBaseDirStillCompletes ==
    [][(\/ /\ ExperimentDoneStep
           /\ NoFolderFor("eln_experiments_basedir", "eln_experiments_foldername_fmt")
           /\ (experiment'.expid.text # <<>> \/ experiment'.titledesc.text # <<>>)
        \/ /\ ProjectDoneStep
           /\ NoFolderFor("eln_projects_basedir", "eln_projects_foldername_fmt")
           /\ "eln_projects_title_fmt" \in DOMAIN settings
           /\ Keys(collected_userinput') = {"projectid", "titledesc"}
           /\ \E k \in 1..Len(collected_userinput') : collected_userinput'[k][2] # <<>>)
        => CompletesWithView]_vars

------------------------------------------------------------------------------
(* Properties of the module-level tables, checked under SpecSession *)

\* C19: the lookup tables wc_maps and snippets are constant: after any
\* sequence of invocations of the transform, statistics, insert-snippet and
\* merge-notes commands their contents are their initial contents.
C19_TablesConstant ==
    /\ globals.wc_maps = wc_maps
    /\ globals.snippets = snippets

C19_Witness ==
    /\ returned = <<"eln_insert_snippet">>
    /\ cmd = "eln_merge_journal_notes"
    /\ pc = "done"
    /\ Len(edits) = 1
    /\ Len(buffer) > Len(<<"A", "x">>) + Len(edits[1].text)

------------------------------------------------------------------------------
(* Properties of eln_insert_text, checked under SpecText *)

\* the point the position argument of the command that ran stands for
ResolvedPosition ==
    IF args.position = None THEN view0.sels[1].a
    ELSE IF args.position = At(-1) THEN Len(view0.buffer)
    ELSE args.position.at

\* C21: eln_insert_text inserts the given text exactly once at the resolved
\* position and changes nothing else of the buffer: position None is the
\* start of the first selection, position -1 is the end of the document (the
\* buffer becomes the old buffer followed by the text), any other position is
\* used as given.
C21_InsertedOnceAtPosition ==
    cmd = "eln_insert_text"
        => /\ pc = "done"
           /\ exc = "none"
           /\ status = <<>>
           /\ Len(edits) = 1
           /\ edits[1].text = args.text
           /\ edits[1].a = ResolvedPosition
           /\ buffer = SubSeq(view0.buffer, 1, ResolvedPosition) \o args.text
                        \o SubSeq(view0.buffer, ResolvedPosition + 1, Len(view0.buffer))
           /\ args.position = At(-1) => buffer = view0.buffer \o args.text
           /\ Len(sels) = Len(view0.sels)

C21_Witness ==
    /\ cmd = "eln_insert_text"
    /\ args.position = None
    /\ args.text = <<"G", "\n">>
    /\ view0.sels[1] = Region(1, 2)
    /\ Len(view0.buffer) = 3
    /\ buffer[2] = "G"

------------------------------------------------------------------------------
(* The transform command without complement and without reverse, under Spec *)

\* C26: when the transform command is invoked with complement = false and
\* reverse = false, every non-empty selection is processed without error and
\* the text written for it is the selection text, filtered when dna_only is
\* set; no undefined or earlier computed text is written.
C26_PlainTransformWritesSelection ==
    (cmd = "eln_sequence_transform" /\ ~args.complement /\ ~args.reverse)
        => /\ pc # "raised"
           /\ Len(edits) = Len(PassedNonEmpty0)
           /\ \A k \in 1..Len(edits) :
                edits[k].text = IF args.dna_only THEN dna_filter(edits[k].src)
                                ELSE edits[k].src

------------------------------------------------------------------------------
(* Complementing twice, checked under SpecFn *)

\* C25: compl is an involution up to upper-casing for both defined maps
\* ('dna', 'rna'): for every string s, also one with the marker characters
\* 5, 3, quote and dash or with unmapped characters,
\* compl(compl(s)) = upper(s), and likewise rcompl(rcompl(s)) = upper(s).
C25_ComplTwiceIsUpper ==
    (wc_map \in {"dna", "rna"} /\ call \in {"compl_compl", "rcompl_rcompl"})
        => ret = Return(upper(seq))

C25_Witness ==
    /\ wc_map = "rna"
    /\ call = "rcompl_rcompl"
    /\ seq = <<"5", "x", "U">>
    /\ ret = Return(<<"5", "X", "U">>)

------------------------------------------------------------------------------
(* Properties of the merge-notes command, checked under SpecSession *)

\* C22: when the journal-file quick panel is cancelled (index < 0) the
\* merge-notes command changes nothing: no notes file is read or overwritten,
\* the setting last_external_journal is not written, and no text is inserted
\* into the view.
C22_CancelChangesNothing ==
    [][(pc = "panel" /\ args'.index < 0)
        => /\ pc' = "done"
           /\ quick_panel' = None
           /\ UNCHANGED <<buffer, sels, edits, status, notes, settings, file_ops, content>>]_vars

C22_Witness ==
    /\ cmd = "eln_merge_journal_notes"
    /\ pc = "done"
    /\ args = [index |-> -1]
    /\ returned = <<"eln_merge_journal_notes">>
    /\ "last_external_journal" \in DOMAIN settings
    /\ file_ops = <<>>
    /\ edits = <<>>

\* the key matching is configured and no offered name has the expid of the
\* view file
NoKeyMatch ==
    /\ "notes_filename_keys" \in DOMAIN settings
    /\ \A k \in 1..Len(quick_panel.items) :
        ExpidOf[quick_panel.items[k]] # ExpidOf[basename[view_file_name]]

\* C23: when the filename-key matching finds no notes file, the quick panel
\* preselects the file chosen in the previous merge if it is still offered:
\* after on_file_selected(i), a later run over the same file list with no
\* key match has selected_index = i.
C23_PreselectsLastChosen ==
    (quick_panel # None /\ last_merge # None /\ last_merge.items = quick_panel.items
     /\ NoKeyMatch)
        => quick_panel.selected_index = last_merge.index

\* C27: whenever the merge-notes command shows the quick panel, the
\* preselected index is an index into the offered list:
\* 0 <= selected_index < number of offered file names.
C27_PreselectedIndexValid ==
    quick_panel # None
        => /\ 0 <= quick_panel.selected_index
           /\ quick_panel.selected_index < Len(quick_panel.items)

\* C28: during a notes move (move = true), once the file was read its
\* content is in the source file or has been inserted into the view: the
\* file is not emptied before the insertion has happened.
C28_ContentNeverLost ==
    (cmd = "eln_merge_journal_notes" /\ file_ops # <<>> /\ merge.move)
        => \/ notes[file_ops[1].path] = file_ops[1].data
           \/ /\ edits # <<>>
              /\ buffer = view_insert(view0.buffer, edits[1].a, content)

====
